---- MODULE Spec2Model ----
(***************************************************************************)
(* Model of the Galacticus SHMR container layer of shmr_datasets:          *)
(* data_format.py (typed records), io.py (HDF5 save / load / validate)     *)
(* and utils.py (interpolate_shmr, calculate_stellar_mass_function).       *)
(*                                                                         *)
(* Conventions.  Python str values that the code inspects character by     *)
(* character (labels, file names, the part of an HDF5 member name after    *)
(* 'redshiftInterval') are sequences of one-character strings; str values  *)
(* that are only compared or concatenated are TLA+ strings.  Floats are     *)
(* fixed-point integers.  A call that may raise returns a record            *)
(* [exc, val]; exc = "None" means it returned val.                          *)
(***************************************************************************)
EXTENDS Integers, Sequences, FiniteSets, TLC

VARIABLES data,     \* the dataset record the script holds (or NoneVal)
          fs,       \* the file system: path -> file content
          op,       \* the last call: its name and arguments
          exc,      \* the exception the last call raised ("None": it returned)
          ret       \* the value the last call returned (or NoneVal)

vars == <<data, fs, op, exc, ret>>

---------------------------------------------------------------------------
(* Bounds of the model *)

MaxLen == 2          \* longest array of an interval given to a constructor
MaxIntervals == 11   \* longest interval list (index 10 needs a two-digit name)
MaxRedshifts == 3    \* longest array given to calculate_redshift_bins

---------------------------------------------------------------------------
(* Python values *)

NoneVal == [tag |-> "None"]

Ok(v) == [exc |-> "None", val |-> v]
Raise(e) == [exc |-> e, val |-> NoneVal]

\* F(v), v worked out once before F is applied to it
Apply(F(_), v) == CHOOSE r \in {F(x) : x \in {v}} : TRUE

NaN == -1   \* marks numpy.nan in an interpolated array (masses are positive)

Range(s) == {s[i] : i \in DOMAIN s}

\* str(chars): the characters of the model, in code-point order
AsciiOrder ==
  <<" ", "!", "-", ".", "0", "1", "2", "3", "4", "5", "6", "7", "8", "9",
    "I", "X", "_", "a", "b", "c", "d", "e", "f", "g", "h", "i", "l", "m",
    "n", "o", "p", "r", "s", "t", "v", "y">>

Ord(c) == CHOOSE i \in DOMAIN AsciiOrder : AsciiOrder[i] = c

DigitChars == <<"0", "1", "2", "3", "4", "5", "6", "7", "8", "9">>

IsDigit(c) == c \in Range(DigitChars)

DigitVal(c) == (CHOOSE i \in DOMAIN DigitChars : DigitChars[i] = c) - 1

\* str.isalnum() of one character (the model's characters are ASCII)
IsAlnumChar(c) == c \notin {" ", "!", "-", ".", "_"}

\* str.isalnum(): every character alphanumeric and at least one character
IsAlnum(s) == Len(s) > 0 /\ \A i \in DOMAIN s : IsAlnumChar(s[i])

\* str.replace(c, ''), for a one-character c
RECURSIVE RemoveChar(_, _)
RemoveChar(s, c) ==
  IF s = <<>> THEN <<>>
  ELSE IF Head(s) = c THEN RemoveChar(Tail(s), c)
       ELSE <<Head(s)>> \o RemoveChar(Tail(s), c)

\* s < t for two str, by code points: decided at the first position i where
\* they differ, or by their lengths
RECURSIVE LexLessFrom(_, _, _)
LexLessFrom(s, t, i) ==
  IF i > Len(t) THEN FALSE
  ELSE IF i > Len(s) THEN TRUE
  ELSE IF s[i] # t[i] THEN Ord(s[i]) < Ord(t[i])
  ELSE LexLessFrom(s, t, i + 1)

LexLess(s, t) == LexLessFrom(s, t, 1)

\* str(i) for an int i >= 0
RECURSIVE IntToStr(_)
IntToStr(i) ==
  IF i < 10 THEN <<DigitChars[i + 1]>>
  ELSE IntToStr(i \div 10) \o <<DigitChars[(i % 10) + 1]>>

RECURSIVE DigitsValue(_)
DigitsValue(s) ==
  IF s = <<>> THEN 0
  ELSE 10 * DigitsValue(SubSeq(s, 1, Len(s) - 1)) + DigitVal(s[Len(s)])

\* int(s): the model's names hold no sign, blank or underscore, so int()
\* returns exactly for a non-empty run of decimal digits
PyInt(s) ==
  IF Len(s) > 0 /\ \A i \in DOMAIN s : IsDigit(s[i])
  THEN Ok(DigitsValue(s))
  ELSE Raise("ValueError")

---------------------------------------------------------------------------
(* data_format.py *)

GALACTICUS_HALO_MASS_DEFINITIONS ==
  <<"spherical collapse", "virial", "Bryan & Norman (1998)",
    "200 * mean density", "200 * critical density", "500 * mean density",
    "500 * critical density", "1000 * mean density",
    "1000 * critical density">>

mutant_validate_halo_mass_definition(definition) == TRUE

validate_halo_mass_definition(definition) ==
  definition \in Range(GALACTICUS_HALO_MASS_DEFINITIONS)

DatasetNames ==
  <<"massHalo", "massStellar", "massStellarError", "massStellarScatter",
    "massStellarScatterError">>

DATASET_DESCRIPTIONS ==
  [massHalo |-> "Halo mass",
   massStellar |-> "Stellar mass",
   massStellarError |-> "Uncertainty in stellar mass",
   massStellarScatter |-> "Intrinsic scatter in stellar mass",
   massStellarScatterError |-> "Uncertainty in intrinsic scatter",
   massBlackHole |-> "Black hole mass",
   massBlackHoleError |-> "Uncertainty in black hole mass",
   massBlackHoleScatter |-> "Intrinsic scatter in black hole mass",
   massBlackHoleScatterError |-> "Uncertainty in intrinsic scatter"]

UNITS_IN_SI == [Msun |-> "1.98847e30", dex |-> "1.0"]

\* the five arrays of an interval record, in the order __post_init__ lists them
IntervalArrays(iv) == [i \in DOMAIN DatasetNames |-> iv[DatasetNames[i]]]

\* a bug that compares only the stellar-mass array with the halo-mass array
mutant_SameLength(arrays) == Len(arrays[2]) = Len(arrays[1])

\* all(len(arr) == len(arrays[0]) for arr in arrays)
SameLength(arrays) ==
  \A i \in DOMAIN arrays : Len(arrays[i]) = Len(arrays[1])

\* RedshiftInterval(...) with __post_init__; the arguments are a record of
\* the seven fields
RedshiftInterval(args) ==
  IF ~SameLength(IntervalArrays(args))
  THEN Raise("ValueError")
  ELSE Ok(args)

\* label.replace('_', '').replace('-', '').isalnum()
LabelOk(label) == IsAlnum(RemoveChar(RemoveChar(label, "_"), "-"))

mutant_GalacticusSHMRData(redshift_intervals, cosmology, haloMassDefinition, label, reference) ==
  IF ~LabelOk(label)
  THEN Raise("ValueError")
  ELSE Ok([redshift_intervals |-> redshift_intervals,
           cosmology |-> cosmology,
           haloMassDefinition |-> haloMassDefinition,
           label |-> label,
           reference |-> reference])

\* GalacticusSHMRData(...) with __post_init__
GalacticusSHMRData(redshift_intervals, cosmology, haloMassDefinition, label, reference) ==
  IF redshift_intervals = <<>>
  THEN Raise("ValueError")
  ELSE IF ~LabelOk(label)
  THEN Raise("ValueError")
  ELSE Ok([redshift_intervals |-> redshift_intervals,
           cosmology |-> cosmology,
           haloMassDefinition |-> haloMassDefinition,
           label |-> label,
           reference |-> reference])

\* create_example_cosmology(): Planck 2018, in units of 1e-5
create_example_cosmology ==
  [OmegaMatter |-> 31110, OmegaDarkEnergy |-> 68890,
   OmegaBaryon |-> 4897, HubbleConstant |-> 6766000]

BlackHoleDatasetNames ==
  <<"massHalo", "massBlackHole", "massBlackHoleError",
    "massBlackHoleScatter", "massBlackHoleScatterError">>

BlackHoleIntervalArrays(iv) ==
  [i \in DOMAIN BlackHoleDatasetNames |-> iv[BlackHoleDatasetNames[i]]]

\* BlackHoleRedshiftInterval(...) with __post_init__
BlackHoleRedshiftInterval(args) ==
  IF ~SameLength(BlackHoleIntervalArrays(args))
  THEN Raise("ValueError")
  ELSE Ok(args)

\* GalacticusBHMRData(...) with __post_init__
GalacticusBHMRData(redshift_intervals, cosmology, haloMassDefinition, label, reference) ==
  IF redshift_intervals = <<>>
  THEN Raise("ValueError")
  ELSE IF ~LabelOk(label)
  THEN Raise("ValueError")
  ELSE Ok([redshift_intervals |-> redshift_intervals,
           cosmology |-> cosmology,
           haloMassDefinition |-> haloMassDefinition,
           label |-> label,
           reference |-> reference])

---------------------------------------------------------------------------
(* pathlib.Path and the HDF5 container as h5py shows it *)

\* str.rfind('.') as a 1-based position, 0 when there is no dot
LastDot(name) ==
  IF \E i \in DOMAIN name : name[i] = "."
  THEN CHOOSE i \in DOMAIN name :
         name[i] = "." /\ \A j \in DOMAIN name : name[j] = "." => j <= i
  ELSE 0

\* Path(name).suffix: from the last dot on, unless that dot starts or ends
\* the name
Suffix(name) ==
  LET i == LastDot(name)
  IN  IF 1 < i /\ i < Len(name) THEN SubSeq(name, i, Len(name)) ELSE <<>>

NoFile == [kind |-> "absent"]      \* filepath.exists() is False
NotHDF5 == [kind |-> "garbage"]    \* h5py.File(...) raises OSError

\* The name of a member of the root group is held in two parts: the stem
\* 'redshiftInterval' and what follows it, or the whole name and nothing.
CosmologyName == [stem |-> "cosmology", tail |-> <<>>]

IntervalName(tail) == [stem |-> "redshiftInterval", tail |-> tail]

\* name.startswith('redshiftInterval')
IsIntervalName(name) == name.stem = "redshiftInterval"

\* a < b for two member names, by code points ('c' sorts before 'r')
NameLess(a, b) ==
  IF a.stem # b.stem
  THEN a.stem = "cosmology" /\ b.stem = "redshiftInterval"
  ELSE LexLess(a.tail, b.tail)

CosmologyAttrs ==
  <<"OmegaMatter", "OmegaDarkEnergy", "OmegaBaryon", "HubbleConstant">>

\* a string attribute as stored: variable-length UTF-8 (what h5py writes for
\* a Python str) or fixed-length (what other writers store)
StrAttr(text) == [vlen |-> TRUE, text |-> text]
FixedStrAttr(text) == [vlen |-> FALSE, text |-> text]

\* attrs[...] of a string attribute: a str for variable-length strings, a
\* numpy.bytes_ for fixed-length ones
AttrRead(a) == [py |-> IF a.vlen THEN "str" ELSE "bytes", text |-> a.text]

\* if isinstance(x, bytes): x = x.decode('utf-8')
DecodeIfBytes(v) ==
  IF v.py = "bytes" THEN [py |-> "str", text |-> v.text] ELSE v

\* the unitsInSI attribute save_galacticus_shmr gives a dataset
UnitsOf(name) ==
  IF name \in {"massHalo", "massStellar", "massStellarError"}
  THEN UNITS_IN_SI.Msun
  ELSE UNITS_IN_SI.dex

\* f'redshiftInterval{i}', i counting from 0
GroupName(i) == IntervalName(IntToStr(i))

mutant_WriteInterval(interval) ==
  [attrs |-> [redshiftMinimum |-> interval.redshiftMinimum,
              redshiftMaximum |-> interval.redshiftMaximum],
   dsets |-> [n \in Range(DatasetNames) |->
                [data |-> interval[n],
                 attrs |-> [description |-> DATASET_DESCRIPTIONS[n]]]]]

\* the group save_galacticus_shmr creates for one interval
WriteInterval(interval) ==
  [attrs |-> [redshiftMinimum |-> interval.redshiftMinimum,
              redshiftMaximum |-> interval.redshiftMaximum],
   dsets |-> [n \in Range(DatasetNames) |->
                [data |-> interval[n],
                 attrs |-> [description |-> DATASET_DESCRIPTIONS[n],
                            unitsInSI |-> UnitsOf(n)]]]]

\* for i, interval in enumerate(data.redshift_intervals): the groups created
\* from the i-th interval on (i counting from 1 here)
RECURSIVE WriteGroups(_, _)
WriteGroups(intervals, i) ==
  IF i > Len(intervals) THEN <<>>
  ELSE (GroupName(i - 1) :> WriteInterval(intervals[i]))
       @@ WriteGroups(intervals, i + 1)

\* the content of the file save_galacticus_shmr writes ('w' truncates)
WriteFile(d) ==
  [kind |-> "hdf5",
   attrs |-> [haloMassDefinition |-> StrAttr(d.haloMassDefinition),
              label |-> StrAttr(d.label),
              reference |-> StrAttr(d.reference)],
   members |-> (CosmologyName :> [attrs |-> d.cosmology, dsets |-> <<>>])
               @@ WriteGroups(d.redshift_intervals, 1)]

HDF5Suffix == <<".", "h", "d", "f", "5">>

\* a bug that opens the file with mode 'a': what the file held stays unless
\* it is written again
mutant_save_galacticus_shmr(fsys, d, filepath) ==
  IF Suffix(filepath) # HDF5Suffix
  THEN [exc |-> "ValueError", fs |-> fsys, arg |-> d]
  ELSE IF ~validate_halo_mass_definition(d.haloMassDefinition)
  THEN [exc |-> "ValueError", fs |-> fsys, arg |-> d]
  ELSE [exc |-> "None",
        fs |-> [fsys EXCEPT ![filepath] =
                  IF fsys[filepath] \in {NoFile, NotHDF5} THEN WriteFile(d)
                  ELSE [kind |-> "hdf5",
                        attrs |-> WriteFile(d).attrs,
                        members |-> WriteFile(d).members
                                    @@ fsys[filepath].members]],
        arg |-> d]

\* save_galacticus_shmr(data, filepath): the exception, the file system
\* after the call and the record passed as data after the call (the code
\* only reads it)
save_galacticus_shmr(fsys, d, filepath) ==
  IF Suffix(filepath) # HDF5Suffix
  THEN [exc |-> "ValueError", fs |-> fsys, arg |-> d]
  ELSE IF ~validate_halo_mass_definition(d.haloMassDefinition)
  THEN [exc |-> "ValueError", fs |-> fsys, arg |-> d]
  ELSE [exc |-> "None", fs |-> [fsys EXCEPT ![filepath] = WriteFile(d)],
        arg |-> d]

\* the names of a set of members in the order f.keys() yields them
\* (ascending by code points): each name at the place that the number of
\* names before it gives
NamesByRank(S, rank) ==
  [r \in 1..Cardinality(S) |-> CHOOSE n \in S : rank[n] = r - 1]

SortedNames(S) ==
  Apply(LAMBDA rank : NamesByRank(S, rank),
        [n \in S |-> Cardinality({m \in S : NameLess(m, n)})])

\* [name for name in f.keys() if name.startswith('redshiftInterval')]
IntervalNames(f) ==
  Apply(SortedNames, {n \in DOMAIN f.members : IsIntervalName(n)})

\* int(x.replace('redshiftInterval', '')): the tails of the model hold no
\* second 'redshiftInterval', so what is left is the tail
IntervalKey(name) == PyInt(name.tail)

\* the number of names a stable sort puts before the i-th: those of a
\* smaller key and the earlier ones of the same key
SortRanks(keys) ==
  [i \in DOMAIN keys |->
     Cardinality({j \in DOMAIN keys :
                    \/ keys[j] < keys[i]
                    \/ keys[j] = keys[i] /\ j < i})]

Permute(names, rank) ==
  [r \in DOMAIN names |-> names[CHOOSE i \in DOMAIN names : rank[i] = r - 1]]

\* list.sort(key=...), given the keys
StableSortByKey(names, keys) ==
  Apply(LAMBDA rank : Permute(names, rank), SortRanks(keys))

SortWithKeys(names, keys) ==
  IF \E i \in DOMAIN names : keys[i].exc # "None"
  THEN Raise("ValueError")
  ELSE Ok(Apply(LAMBDA ks : StableSortByKey(names, ks),
                [i \in DOMAIN names |-> keys[i].val]))

\* a bug that leaves the names in the order f.keys() yields them
mutant_SortIntervalNames(names) == Ok(names)

\* interval_names.sort(key=lambda x: int(x.replace('redshiftInterval', '')))
SortIntervalNames(names) ==
  Apply(LAMBDA keys : SortWithKeys(names, keys),
        [i \in DOMAIN names |-> IntervalKey(names[i])])

\* the body of the loop of load_galacticus_shmr for one group
ReadInterval(group) ==
  IF "redshiftMinimum" \notin DOMAIN group.attrs THEN Raise("KeyError")
  ELSE IF "redshiftMaximum" \notin DOMAIN group.attrs THEN Raise("KeyError")
  ELSE IF \E i \in DOMAIN DatasetNames :
            DatasetNames[i] \notin DOMAIN group.dsets
  THEN Raise("KeyError")
  ELSE RedshiftInterval(
         [massHalo |-> group.dsets["massHalo"].data,
          massStellar |-> group.dsets["massStellar"].data,
          massStellarError |-> group.dsets["massStellarError"].data,
          massStellarScatter |-> group.dsets["massStellarScatter"].data,
          massStellarScatterError |->
            group.dsets["massStellarScatterError"].data,
          redshiftMinimum |-> group.attrs["redshiftMinimum"],
          redshiftMaximum |-> group.attrs["redshiftMaximum"]])

\* the outcome of a loop whose i-th pass has the outcome results[i]: the
\* first exception, or the list of the values
FirstRaiseOrAll(results) ==
  IF \E i \in DOMAIN results : results[i].exc # "None"
  THEN results[CHOOSE i \in DOMAIN results :
                 /\ results[i].exc # "None"
                 /\ \A j \in 1..(i - 1) : results[j].exc = "None"]
  ELSE Ok([i \in DOMAIN results |-> results[i].val])

\* for interval_name in interval_names: ... redshift_intervals.append(...)
ReadIntervals(f, names) ==
  Apply(FirstRaiseOrAll,
        [i \in DOMAIN names |-> ReadInterval(f.members[names[i]])])

\* the end of load_galacticus_shmr, the intervals read: the record built
LoadResult(redshift_intervals, cosmology, haloMassDefinition, label, reference) ==
  IF redshift_intervals.exc # "None" THEN redshift_intervals
  ELSE GalacticusSHMRData(redshift_intervals.val, cosmology,
                          haloMassDefinition, label, reference)

\* the loop of load_galacticus_shmr over the sorted names, and its end
LoadIntervals(f, interval_names, cosmology, haloMassDefinition, label, reference) ==
  IF interval_names.exc # "None" THEN interval_names
  ELSE Apply(LAMBDA redshift_intervals :
               LoadResult(redshift_intervals, cosmology, haloMassDefinition,
                          label, reference),
             ReadIntervals(f, interval_names.val))

\* load_galacticus_shmr(filepath)
load_galacticus_shmr(fsys, filepath) ==
  LET f == fsys[filepath] IN
  IF f = NoFile THEN Raise("FileNotFoundError")
  ELSE IF f = NotHDF5 THEN Raise("OSError")
  ELSE IF \E a \in {"haloMassDefinition", "label", "reference"} :
            a \notin DOMAIN f.attrs
  THEN Raise("KeyError")
  ELSE IF CosmologyName \notin DOMAIN f.members THEN Raise("KeyError")
  ELSE IF \E i \in DOMAIN CosmologyAttrs :
            CosmologyAttrs[i] \notin DOMAIN f.members[CosmologyName].attrs
  THEN Raise("KeyError")
  ELSE
    LET cosmo == f.members[CosmologyName].attrs
    IN  Apply(LAMBDA names : Apply(LAMBDA interval_names : LoadIntervals(
          f,
          interval_names,
          [OmegaMatter |-> cosmo["OmegaMatter"],
           OmegaDarkEnergy |-> cosmo["OmegaDarkEnergy"],
           OmegaBaryon |-> cosmo["OmegaBaryon"],
           HubbleConstant |-> cosmo["HubbleConstant"]],
          DecodeIfBytes(AttrRead(f.attrs["haloMassDefinition"])).text,
          DecodeIfBytes(AttrRead(f.attrs["label"])).text,
          DecodeIfBytes(AttrRead(f.attrs["reference"])).text),
            SortIntervalNames(names)), IntervalNames(f))

\* one message of results['errors'] or results['warnings']: its fixed text,
\* the attribute or dataset it names and the group it names
Message(msg, what, where) == [msg |-> msg, what |-> what, where |-> where]

RootName == [stem |-> "", tail |-> <<>>]

\* results['valid'] = False; results['errors'].append(...)
AddError(st, msg, what, where) ==
  [st EXCEPT !.valid = FALSE,
             !.errors = Append(@, Message(msg, what, where))]

mutant_AddWarning(st, msg, what, where) ==
  [st EXCEPT !.valid = FALSE,
             !.warnings = Append(@, Message(msg, what, where))]

\* results['warnings'].append(...)
AddWarning(st, msg, what, where) ==
  [st EXCEPT !.warnings = Append(@, Message(msg, what, where))]

\* for attr in required: if attr not in attrs: an error for it, in order
RECURSIVE CheckAttrs(_, _, _, _, _, _)
CheckAttrs(st, attrs, required, i, msg, where) ==
  IF i > Len(required) THEN st
  ELSE CheckAttrs(IF required[i] \in DOMAIN attrs THEN st
                  ELSE AddError(st, msg, required[i], where),
                  attrs, required, i + 1, msg, where)

\* the two warnings about the recommended attributes of a dataset
CheckRecommended(st, dset, dset_name, interval_name) ==
  LET st1 == IF "description" \in DOMAIN dset.attrs THEN st
             ELSE AddWarning(st, "Missing description", dset_name,
                             interval_name)
  IN  IF "unitsInSI" \in DOMAIN dset.attrs THEN st1
      ELSE AddWarning(st1, "Missing unitsInSI", dset_name, interval_name)

\* a bug that takes the length of massHalo of the group for that of every
\* dataset
mutant_CheckLength(st, dset, dset_name, interval_name) ==
  IF dset_name = "massHalo"
  THEN [st EXCEPT !.bound = TRUE, !.expected_length = Len(dset.data)]
  ELSE IF ~st.bound THEN [st EXCEPT !.raised = TRUE]
  ELSE st

\* if dset_name == 'massHalo': expected_length = len(dset)
\* elif len(dset) != expected_length: ...  (expected_length is a local of
\* the whole function: unbound until the first massHalo is seen, and kept
\* from one group to the next)
CheckLength(st, dset, dset_name, interval_name) ==
  IF dset_name = "massHalo"
  THEN [st EXCEPT !.bound = TRUE, !.expected_length = Len(dset.data)]
  ELSE IF ~st.bound THEN [st EXCEPT !.raised = TRUE]
  ELSE IF Len(dset.data) # st.expected_length
  THEN AddError(st, "Dataset has wrong length", dset_name, interval_name)
  ELSE st

\* one pass of the loop over required_datasets
CheckDataset(st, group, dset_name, interval_name) ==
  IF dset_name \notin DOMAIN group.dsets
  THEN AddError(st, "Missing dataset", dset_name, interval_name)
  ELSE Apply(LAMBDA st1 :
               IF st1.raised THEN st1
               ELSE CheckRecommended(st1, group.dsets[dset_name], dset_name,
                                     interval_name),
             CheckLength(st, group.dsets[dset_name], dset_name,
                         interval_name))

RECURSIVE CheckDatasets(_, _, _, _)
CheckDatasets(st, group, i, interval_name) ==
  IF i > Len(DatasetNames) \/ st.raised THEN st
  ELSE Apply(LAMBDA st1 : CheckDatasets(st1, group, i + 1, interval_name),
             CheckDataset(st, group, DatasetNames[i], interval_name))

\* one pass of the loop over interval_names
CheckGroup(st, group, interval_name) ==
  Apply(LAMBDA st1 : CheckDatasets(st1, group, 1, interval_name),
        CheckAttrs(st, group.attrs, <<"redshiftMinimum", "redshiftMaximum">>,
                   1, "Missing attribute", interval_name))

RECURSIVE CheckGroups(_, _, _, _)
CheckGroups(st, f, names, i) ==
  IF i > Len(names) \/ st.raised THEN st
  ELSE Apply(LAMBDA st1 : CheckGroups(st1, f, names, i + 1),
             CheckGroup(st, f.members[names[i]], names[i]))

\* if 'haloMassDefinition' in f.attrs: ... the warning about a non-standard
\* definition
CheckDefinition(st, f) ==
  IF "haloMassDefinition" \notin DOMAIN f.attrs THEN st
  ELSE IF validate_halo_mass_definition(
            DecodeIfBytes(AttrRead(f.attrs["haloMassDefinition"])).text)
  THEN st
  ELSE AddWarning(st, "Non-standard halo mass definition", "", RootName)

\* the check of the cosmology group
CheckCosmology(st, f) ==
  IF CosmologyName \notin DOMAIN f.members
  THEN AddError(st, "Missing required cosmology group", "", RootName)
  ELSE CheckAttrs(st, f.members[CosmologyName].attrs, CosmologyAttrs, 1,
                  "Missing cosmology attribute", CosmologyName)

\* if not interval_names: ... else the loop over them
CheckIntervals(st, f, names) ==
  IF names = <<>>
  THEN AddError(st, "No redshift intervals found", "", RootName)
  ELSE CheckGroups(st, f, names, 1)

\* except Exception as e: ...; and the dict that is returned
Results(st) ==
  IF st.raised
  THEN [valid |-> FALSE,
        errors |-> Append(st.errors,
                          Message("Error reading file", "", RootName)),
        warnings |-> st.warnings]
  ELSE [valid |-> st.valid, errors |-> st.errors, warnings |-> st.warnings]

\* the body of the with block, from results = {'valid': True, ...}
ValidateOpen(f) ==
  Apply(LAMBDA st1 :
          Apply(LAMBDA st2 :
                  Apply(LAMBDA st3 : CheckIntervals(st3, f, IntervalNames(f)),
                        CheckCosmology(st2, f)),
                CheckDefinition(st1, f)),
        CheckAttrs([valid |-> TRUE, errors |-> <<>>, warnings |-> <<>>,
                    bound |-> FALSE, expected_length |-> 0,
                    raised |-> FALSE],
                   f.attrs, <<"haloMassDefinition", "label", "reference">>,
                   1, "Missing required attribute", RootName))

\* validate_galacticus_file(filepath)
validate_galacticus_file(fsys, filepath) ==
  IF fsys[filepath] = NoFile
  THEN [valid |-> FALSE,
        errors |-> <<Message("File not found", "", RootName)>>,
        warnings |-> <<>>]
  ELSE IF fsys[filepath] = NotHDF5
  THEN [valid |-> FALSE,
        errors |-> <<Message("Error reading file", "", RootName)>>,
        warnings |-> <<>>]
  ELSE Apply(Results, ValidateOpen(fsys[filepath]))

---------------------------------------------------------------------------
(* utils.py *)

RECURSIVE Pow10(_)
Pow10(k) == IF k <= 0 THEN 1 ELSE 10 * Pow10(k - 1)

\* numpy.log10 of a power of ten (the masses of the model are powers of ten)
RECURSIVE Log10(_)
Log10(n) == IF n < 10 THEN 0 ELSE 1 + Log10(n \div 10)

\* x**alpha for x = num / den, for a whole exponent (x**0 is 1; a negative
\* exponent turns the fraction over)
Power(num, den, alpha) ==
  IF alpha = 0 THEN 1
  ELSE LET x == IF alpha > 0 THEN num \div den ELSE den \div num
           a == IF alpha > 0 THEN alpha ELSE -alpha
           pw[k \in 0..a] == IF k = 0 THEN 1 ELSE x * pw[k - 1]
       IN  pw[a]

\* a dict of keyword arguments is a function from names to values
NoKeywords == [k \in {} |-> 0]

\* f(halo_mass, **parameters): a name f does not take is a TypeError, and
\* a name that is not given takes its default
BindKeywords(defaults, parameters) ==
  IF ~(DOMAIN parameters \subseteq DOMAIN defaults) THEN Raise("TypeError")
  ELSE Ok([k \in DOMAIN defaults |->
             IF k \in DOMAIN parameters THEN parameters[k] ELSE defaults[k]])

\* the keyword arguments of the known forms
behroozi2010_keywords ==
  {"redshift", "logMstar00", "logMstar0a", "logM10", "logM1a", "beta0",
   "betaa", "delta0", "deltaa", "gamma0", "gammaa"}
behroozi2013_keywords == {"log_m1", "ms0", "beta", "delta", "gamma"}
moster2013_keywords == {"m1", "n10", "beta", "gamma"}
rodriguez_puebla2017_keywords ==
  {"log_m1", "log_eps", "alpha", "beta", "gamma"}

\* the defaults of double_powerlaw_shmr, masses in the model's units and
\* the exponents whole (alpha_high is -0.5 in the source)
double_powerlaw_defaults ==
  [ms_norm |-> 10, mh_norm |-> 100, alpha_low |-> 1, alpha_high |-> -1]

\* behroozi2010_shmr, behroozi2013_shmr, moster2013_shmr and
\* rodriguez_puebla2017_shmr work in floating point on the whole array at
\* once: each returns one stellar mass per halo mass, and which mass is
\* left open (`values` holds one for every entry)
ElementwiseForm(halo_mass, keywords, parameters, values) ==
  IF ~(DOMAIN parameters \subseteq keywords) THEN Raise("TypeError")
  ELSE Ok([i \in DOMAIN halo_mass |-> values[i]])

\* double_powerlaw_shmr(halo_mass, **parameters)
double_powerlaw_shmr(halo_mass, parameters) ==
  [i \in DOMAIN halo_mass |->
     IF halo_mass[i] < parameters.mh_norm
     THEN parameters.ms_norm
          * Power(halo_mass[i], parameters.mh_norm, parameters.alpha_low)
     ELSE parameters.ms_norm
          * Power(halo_mass[i], parameters.mh_norm, parameters.alpha_high)]

\* the defaults of calculate_shmr, in hundredths of a dex
DefaultScatter == 16
DefaultError == 10
DefaultScatterError == 4

mutant_Full(n, value) == [i \in 1..(n + 1) |-> value]

\* np.full(n, value)
Full(n, value) == [i \in 1..n |-> value]

\* scatter and stellar_mass_errors of calculate_shmr: None gives the
\* default; an array of another shape is spread over n entries when it has
\* one entry, and cannot be broadcast otherwise
FillOrKeep(given, n, default) ==
  IF ~given.given THEN Ok(Full(n, default))
  ELSE IF Len(given.value) = n THEN Ok(given.value)
  ELSE IF Len(given.value) = 1 THEN Ok(Full(n, given.value[1]))
  ELSE Raise("ValueError")

\* double_powerlaw_shmr(halo_masses, **parameters), as calculate_shmr
\* calls it
CallDoublePowerLaw(halo_masses, parameters) ==
  Apply(LAMBDA bound :
          IF bound.exc # "None" THEN bound
          ELSE Ok(double_powerlaw_shmr(halo_masses, bound.val)),
        BindKeywords(double_powerlaw_defaults, parameters))

\* stellar_masses of calculate_shmr: shmr_function is a str naming a known
\* form or a callable; the callable of the model returns the double power
\* law without its last `drop` entries
StellarMasses(halo_masses, shmr_function, parameters, values) ==
  IF shmr_function.py = "str"
  THEN IF shmr_function.text = "behroozi2010"
       THEN ElementwiseForm(halo_masses, behroozi2010_keywords, parameters,
                            values)
       ELSE IF shmr_function.text = "behroozi2013"
       THEN ElementwiseForm(halo_masses, behroozi2013_keywords, parameters,
                            values)
       ELSE IF shmr_function.text = "moster2013"
       THEN ElementwiseForm(halo_masses, moster2013_keywords, parameters,
                            values)
       ELSE IF shmr_function.text = "rodriguez_puebla2017"
       THEN ElementwiseForm(halo_masses, rodriguez_puebla2017_keywords,
                            parameters, values)
       ELSE IF shmr_function.text = "double_powerlaw"
       THEN CallDoublePowerLaw(halo_masses, parameters)
       ELSE Raise("ValueError")
  ELSE Apply(LAMBDA stellar_masses :
               IF stellar_masses.exc # "None" THEN stellar_masses
               ELSE Ok(SubSeq(stellar_masses.val, 1,
                              Len(halo_masses) - shmr_function.drop)),
             CallDoublePowerLaw(halo_masses, parameters))

\* the end of calculate_shmr, the arrays worked out
CalculatedData(halo_masses, stellar_masses, stellar_mass_errors, scatter, redshift, redshift_width, cosmology, halo_mass_definition, label, reference) ==
  IF stellar_masses.exc # "None" THEN stellar_masses
  ELSE IF scatter.exc # "None" THEN scatter
  ELSE IF stellar_mass_errors.exc # "None" THEN stellar_mass_errors
  ELSE Apply(LAMBDA redshift_interval :
               IF redshift_interval.exc # "None" THEN redshift_interval
               ELSE GalacticusSHMRData(<<redshift_interval.val>>, cosmology,
                                       halo_mass_definition, label,
                                       reference),
             RedshiftInterval(
               [massHalo |-> halo_masses,
                massStellar |-> stellar_masses.val,
                massStellarError |-> stellar_mass_errors.val,
                massStellarScatter |-> scatter.val,
                massStellarScatterError |->
                  Full(Len(halo_masses), DefaultScatterError),
                redshiftMinimum |-> redshift - redshift_width \div 2,
                redshiftMaximum |-> redshift + redshift_width \div 2]))

\* calculate_shmr(halo_masses, shmr_function, ..., **kwargs): parameters
\* is None or a dict; kwargs is taken and never read; `values` is what the
\* floating-point forms return
calculate_shmr(halo_masses, shmr_function, redshift, redshift_width, cosmology, parameters, halo_mass_definition, label, reference, scatter, stellar_mass_errors, kwargs, values) ==
  CalculatedData(halo_masses,
                 StellarMasses(halo_masses, shmr_function,
                               IF parameters = NoneVal THEN NoKeywords
                               ELSE parameters, values),
                 FillOrKeep(stellar_mass_errors, Len(halo_masses),
                            DefaultError),
                 FillOrKeep(scatter, Len(halo_masses), DefaultScatter),
                 redshift, redshift_width,
                 IF cosmology = NoneVal THEN create_example_cosmology
                 ELSE cosmology,
                 halo_mass_definition, label, reference)

\* sequence[index] of Python: a negative index counts from the end
PyIndex(seq, index) ==
  IF index >= Len(seq) \/ index < 0 - Len(seq) THEN Raise("IndexError")
  ELSE Ok(seq[IF index < 0 THEN Len(seq) + index + 1 ELSE index + 1])

\* the left end of the segment of the sorted knots x that x_new is worked
\* out on: the last knot not above it, kept inside 1..Len(x)-1
Segment(x, x_new) ==
  LET below == {j \in 1..(Len(x) - 1) : x[j] <= x_new}
  IN  IF below = {} THEN 1 ELSE CHOOSE j \in below : \A k \in below : k <= j

\* the straight line through two neighbouring knots, at x_new (the inputs
\* of the model make the quotient whole)
Linear(x, y, x_new) ==
  LET j == Segment(x, x_new)
  IN  y[j] + ((y[j + 1] - y[j]) * (x_new - x[j])) \div (x[j + 1] - x[j])

\* one value of interp1d(x, y, kind='linear', ...)(x_new): on a single knot
\* the slope is 0/0 where the function extrapolates, and numpy.interp
\* returns the one value where it does not
Evaluate(x, y, x_new, extrapolate) ==
  IF Len(x) = 1 THEN (IF extrapolate THEN NaN ELSE y[1])
  ELSE Linear(x, y, x_new)

OutOfBounds(x, x_new) ==
  \E k \in DOMAIN x_new : x_new[k] < x[1] \/ x_new[k] > x[Len(x)]

\* interp1d(x, y, kind='linear', bounds_error=not extrapolate,
\*          fill_value='extrapolate' if extrapolate else nan)(x_new)
\* min_entries is the least number of knots the installed scipy builds a
\* linear interpolant from
interp1d(x, y, x_new, extrapolate, min_entries) ==
  IF Len(x) < min_entries THEN Raise("ValueError")
  ELSE IF ~extrapolate /\ OutOfBounds(x, x_new) THEN Raise("ValueError")
  ELSE Ok([k \in DOMAIN x_new |-> Evaluate(x, y, x_new[k], extrapolate)])

Log10All(a) == [i \in DOMAIN a |-> Log10(a[i])]

\* 10**a; a NaN stays a NaN
Exp10All(a) == [i \in DOMAIN a |-> IF a[i] = NaN THEN NaN ELSE Pow10(a[i])]

\* new_stellar_masses of interpolate_shmr, for the methods "log-linear" and
\* "linear" (kind=method is then 'linear')
NewStellarMasses(interval, new_halo_masses, method, extrapolate, min_entries) ==
  IF method = "log-linear"
  THEN Apply(LAMBDA r : IF r.exc # "None" THEN r ELSE Ok(Exp10All(r.val)),
             interp1d(Log10All(interval.massHalo),
                      Log10All(interval.massStellar),
                      Log10All(new_halo_masses), extrapolate, min_entries))
  ELSE interp1d(interval.massHalo, interval.massStellar, new_halo_masses,
                extrapolate, min_entries)

\* f"{shmr_data.label}_interpolated"
InterpolatedLabel(label) ==
  label \o <<"_", "i", "n", "t", "e", "r", "p", "o", "l", "a", "t", "e", "d">>

\* f"{shmr_data.reference} (interpolated using {method} method)"
InterpolatedReference(reference, method) ==
  reference \o " (interpolated using " \o method \o " method)"

\* a bug that reads the redshift bounds of the first interval whatever the
\* index
mutant_NewInterval(shmr_data, interval, new_halo_masses, stellar, errors, scatter, scatter_errors) ==
  RedshiftInterval(
    [massHalo |-> new_halo_masses,
     massStellar |-> stellar,
     massStellarError |-> errors,
     massStellarScatter |-> scatter,
     massStellarScatterError |-> scatter_errors,
     redshiftMinimum |-> shmr_data.redshift_intervals[1].redshiftMinimum,
     redshiftMaximum |-> shmr_data.redshift_intervals[1].redshiftMaximum])

\* new_interval = RedshiftInterval(...) of interpolate_shmr
NewInterval(shmr_data, interval, new_halo_masses, stellar, errors, scatter, scatter_errors) ==
  RedshiftInterval(
    [massHalo |-> new_halo_masses,
     massStellar |-> stellar,
     massStellarError |-> errors,
     massStellarScatter |-> scatter,
     massStellarScatterError |-> scatter_errors,
     redshiftMinimum |-> interval.redshiftMinimum,
     redshiftMaximum |-> interval.redshiftMaximum])

\* the end of interpolate_shmr, the four arrays interpolated
InterpolatedData(shmr_data, interval, new_halo_masses, method, stellar, errors, scatter, scatter_errors) ==
  IF stellar.exc # "None" THEN stellar
  ELSE IF errors.exc # "None" THEN errors
  ELSE IF scatter.exc # "None" THEN scatter
  ELSE IF scatter_errors.exc # "None" THEN scatter_errors
  ELSE Apply(LAMBDA new_interval :
               IF new_interval.exc # "None" THEN new_interval
               ELSE GalacticusSHMRData(
                      <<new_interval.val>>, shmr_data.cosmology,
                      shmr_data.haloMassDefinition,
                      InterpolatedLabel(shmr_data.label),
                      InterpolatedReference(shmr_data.reference, method)),
             NewInterval(shmr_data, interval, new_halo_masses, stellar.val,
                         errors.val, scatter.val, scatter_errors.val))

\* interpolate_shmr from interval = ... on
InterpolateInterval(shmr_data, interval, new_halo_masses, method, extrapolate, min_entries) ==
  Apply(LAMBDA new :
          InterpolatedData(shmr_data, interval, new_halo_masses, method,
                           new[1], new[2], new[3], new[4]),
        <<NewStellarMasses(interval, new_halo_masses, method, extrapolate,
                           min_entries),
          interp1d(interval.massHalo, interval.massStellarError,
                   new_halo_masses, extrapolate, min_entries),
          interp1d(interval.massHalo, interval.massStellarScatter,
                   new_halo_masses, extrapolate, min_entries),
          interp1d(interval.massHalo, interval.massStellarScatterError,
                   new_halo_masses, extrapolate, min_entries)>>)

\* a bug that puts the new interval into the record it was given
mutant_interpolate_shmr(shmr_data, new_halo_masses, redshift_interval_index, method, extrapolate, min_entries) ==
  [exc |-> "None", val |-> shmr_data,
   arg |-> [shmr_data EXCEPT !.redshift_intervals =
              <<[@[1] EXCEPT !.massHalo = new_halo_masses]>>]]

\* interpolate_shmr(shmr_data, new_halo_masses, redshift_interval_index,
\*                  method, extrapolate): the exception, the value returned
\* and shmr_data after the call (the code only reads it)
interpolate_shmr(shmr_data, new_halo_masses, redshift_interval_index, method, extrapolate, min_entries) ==
  IF redshift_interval_index >= Len(shmr_data.redshift_intervals)
  THEN [exc |-> "ValueError", val |-> NoneVal, arg |-> shmr_data]
  ELSE Apply(LAMBDA interval :
         IF interval.exc # "None"
         THEN [exc |-> interval.exc, val |-> NoneVal, arg |-> shmr_data]
         ELSE Apply(LAMBDA r : [exc |-> r.exc, val |-> r.val,
                                arg |-> shmr_data],
                    InterpolateInterval(shmr_data, interval.val,
                                        new_halo_masses, method, extrapolate,
                                        min_entries)),
         PyIndex(shmr_data.redshift_intervals, redshift_interval_index))

\* log_mh_range = np.linspace(10, 16, 1000), kept at its whole numbers
LogMhLow == 10
LogMhHigh == 16

\* mass_centers = (log_mass_bins[:-1] + log_mass_bins[1:]) / 2
MassCenters(log_mass_bins) ==
  [i \in 1..(Len(log_mass_bins) - 1) |->
     (log_mass_bins[i] + log_mass_bins[i + 1]) \div 2]

\* the halo masses of log_mh_range that the relation maps into the i-th
\* stellar-mass bin; outside the knots the prediction is NaN
InBin(log_halo, log_stellar, log_mass_bins, i) ==
  {g \in LogMhLow..LogMhHigh :
     /\ log_halo[1] <= g /\ g <= log_halo[Len(log_halo)]
     /\ Evaluate(log_halo, log_stellar, g, FALSE) >= log_mass_bins[i]
     /\ Evaluate(log_halo, log_stellar, g, FALSE) < log_mass_bins[i + 1]}

\* number_density: zero for a bin no halo mass maps into; the integral over
\* the others is kept as the number of grid points it runs over
NumberDensity(log_halo, log_stellar, log_mass_bins) ==
  [i \in 1..(Len(log_mass_bins) - 1) |->
     Cardinality(InBin(log_halo, log_stellar, log_mass_bins, i))]

\* calculate_stellar_mass_function(shmr_data, halo_mass_function,
\*                                 log_mass_bins, redshift_interval_index)
calculate_stellar_mass_function(shmr_data, log_mass_bins, redshift_interval_index, min_entries) ==
  IF redshift_interval_index >= Len(shmr_data.redshift_intervals)
  THEN [exc |-> "ValueError", val |-> NoneVal, arg |-> shmr_data]
  ELSE Apply(LAMBDA interval :
         IF interval.exc # "None"
         THEN [exc |-> interval.exc, val |-> NoneVal, arg |-> shmr_data]
         ELSE IF Len(interval.val.massHalo) < min_entries
         THEN [exc |-> "ValueError", val |-> NoneVal, arg |-> shmr_data]
         ELSE [exc |-> "None",
               val |-> [centers |-> Exp10All(MassCenters(log_mass_bins)),
                        number_density |->
                          NumberDensity(Log10All(interval.val.massHalo),
                                        Log10All(interval.val.massStellar),
                                        log_mass_bins)],
               arg |-> shmr_data],
         PyIndex(shmr_data.redshift_intervals, redshift_interval_index))

---------------------------------------------------------------------------
(* The inputs the calls are given *)

\* the i-th entry of the array given for a field: halo masses 10, 100, ...,
\* stellar masses 1, 10, ..., and three disjoint runs of small numbers
FieldValue(name, i) ==
  CASE name = "massHalo" -> Pow10(i)
    [] name = "massStellar" -> Pow10(i - 1)
    [] name = "massStellarError" -> i
    [] name = "massStellarScatter" -> 20 + i
    [] name = "massStellarScatterError" -> 40 + i

\* constructor arguments: lens[k] is the length of the k-th array
RawInterval(lens, zmin, zmax) ==
  [massHalo |-> [i \in 1..lens[1] |-> FieldValue("massHalo", i)],
   massStellar |-> [i \in 1..lens[2] |-> FieldValue("massStellar", i)],
   massStellarError |->
     [i \in 1..lens[3] |-> FieldValue("massStellarError", i)],
   massStellarScatter |->
     [i \in 1..lens[4] |-> FieldValue("massStellarScatter", i)],
   massStellarScatterError |->
     [i \in 1..lens[5] |-> FieldValue("massStellarScatterError", i)],
   redshiftMinimum |-> zmin,
   redshiftMaximum |-> zmax]

\* five equal lengths (none or MaxLen), or four arrays of one entry and one
\* of another length
LenTuples ==
  {[k \in 1..5 |-> n] : n \in {0, MaxLen}}
  \cup {[k \in 1..5 |-> IF k = odd THEN MaxLen ELSE 1] : odd \in {2, 5}}

\* n intervals of consecutive redshift bins, ascending or descending, whose
\* arrays differ in length from one interval to the next
Ramp(n, ascending) ==
  [i \in 1..n |->
     LET z == IF ascending THEN i - 1 ELSE n - i
         len == 1 + ((i - 1) % MaxLen)
     IN  RawInterval([k \in 1..5 |-> len], z, z + 1)]

RawLists ==
  {<<>>}
  \cup {<<RawInterval(lens, 0, 1)>> : lens \in LenTuples}
  \cup {Ramp(MaxIntervals, asc) : asc \in BOOLEAN}

\* fixed-point cosmologies, in units of 1e-5
Planck2018 ==
  [OmegaMatter |-> 31110, OmegaDarkEnergy |-> 68890,
   OmegaBaryon |-> 4897, HubbleConstant |-> 6766000]

WMAP7 ==
  [OmegaMatter |-> 27900, OmegaDarkEnergy |-> 72100,
   OmegaBaryon |-> 4690, HubbleConstant |-> 7000000]

BadLabels == {<<"_">>, <<"a", " ", "1">>}

\* label, halo-mass definition, cosmology and reference as the scripts pair
\* them, one non-standard definition, and the labels the check is tried on
MetaInputs ==
  {[label |-> <<"a", "1">>, haloMassDefinition |-> "virial",
    cosmology |-> Planck2018, reference |-> "Zhang et al. (2022)"],
   [label |-> <<"b", "-", "2", "_", "c">>,
    haloMassDefinition |-> "Bryan & Norman (1998)",
    cosmology |-> WMAP7, reference |-> "Behroozi et al. (2010)"],
   [label |-> <<"a", "1">>, haloMassDefinition |-> "M200c",
    cosmology |-> Planck2018, reference |-> "Moster et al. (2013)"]}
  \cup {[label |-> l, haloMassDefinition |-> "virial",
         cosmology |-> Planck2018, reference |-> "Zhang et al. (2022)"] :
          l \in BadLabels}

PathHdf5 == <<"d", ".", "h", "d", "f", "5">>
PathH5 == <<"d", ".", "h", "5">>
PathTxt == <<"d", ".", "t", "x", "t">>

Paths == {PathHdf5, PathH5, PathTxt}

\* arguments of the black-hole constructor, the arrays as long as lens says
RawBlackHoleInterval(lens, zmin, zmax) ==
  [massHalo |-> [i \in 1..lens[1] |-> FieldValue("massHalo", i)],
   massBlackHole |-> [i \in 1..lens[2] |-> FieldValue("massStellar", i)],
   massBlackHoleError |->
     [i \in 1..lens[3] |-> FieldValue("massStellarError", i)],
   massBlackHoleScatter |->
     [i \in 1..lens[4] |-> FieldValue("massStellarScatter", i)],
   massBlackHoleScatterError |->
     [i \in 1..lens[5] |-> FieldValue("massStellarScatterError", i)],
   redshiftMinimum |-> zmin,
   redshiftMaximum |-> zmax]

BlackHoleInputs ==
  {c \in ({<<>>} \cup {<<RawBlackHoleInterval(lens, 0, 1)>> :
                         lens \in LenTuples}) \X MetaInputs :
     /\ c[2].haloMassDefinition = "virial"
     /\ \/ c[2].label = <<"a", "1">>
        \/ c[1] = <<RawBlackHoleInterval([k \in 1..5 |-> MaxLen], 0, 1)>>}

\* halo masses to interpolate to: none, two inside every interval of two
\* entries, and one beyond every interval
NewHaloMasses == {<<>>, <<10, 100>>, <<10, Pow10(MaxLen + 1)>>}

InterpolateIndexes == {-1, 0, 1}

InterpolateMethods == {"linear", "log-linear"}

\* the least number of knots of a linear interp1d, by scipy version
MinEntries == {1, 2}

LogMassBins == <<2, 4, 6>>

NotGiven == [given |-> FALSE]
Given(a) == [given |-> TRUE, value |-> a]

PowerLawParameters ==
  [ms_norm |-> 10, mh_norm |-> 100, alpha_low |-> 0, alpha_high |-> 1]

\* calculate_shmr as the template script calls it, and the same call changed
\* in one argument
CalculateBase ==
  [halo_masses |-> <<10, 100>>,
   shmr_function |-> [py |-> "str", text |-> "double_powerlaw"],
   redshift |-> 0, redshift_width |-> 2, cosmology |-> NoneVal,
   halo_mass_definition |-> "virial", label |-> <<"S", "H", "M", "R">>,
   reference |-> "Generated SHMR", scatter |-> NotGiven,
   stellar_mass_errors |-> NotGiven,
   parameters |-> PowerLawParameters, kwargs |-> NoKeywords]

CalculateInputs ==
  {CalculateBase,
   [CalculateBase EXCEPT !.halo_masses = <<>>],
   [CalculateBase EXCEPT !.shmr_function = [py |-> "str", text |-> "nosuch"]],
   [CalculateBase EXCEPT !.shmr_function = [py |-> "callable", drop |-> 0]],
   [CalculateBase EXCEPT !.shmr_function = [py |-> "callable", drop |-> 1]],
   [CalculateBase EXCEPT !.halo_mass_definition = "M200c",
                         !.cosmology = WMAP7],
   [CalculateBase EXCEPT !.scatter = Given(<<20>>)],
   [CalculateBase EXCEPT !.stellar_mass_errors = Given(<<1, 2, 3>>)]}

\* the stellar masses a floating-point form can return for a call: one of
\* two masses for every halo mass (the other forms are worked out)
FloatingPointForms ==
  {"behroozi2010", "behroozi2013", "moster2013", "rodriguez_puebla2017"}

FormValues(c) ==
  IF c.shmr_function.py = "str" /\ c.shmr_function.text \in FloatingPointForms
  THEN [1..Len(c.halo_masses) -> {10, 100}]
  ELSE {<<>>}

\* the calls of calculate_shmr checked on their own: every array of up to
\* MaxLen halo masses, every known name, an unknown name and two callables,
\* with parameters, keyword arguments, scatter, errors, redshift, width and
\* label varied
HaloMassArrays == {[i \in 1..n |-> Pow10(i)] : n \in 0..MaxLen}

ShmrFunctions ==
  {[py |-> "str", text |-> t] :
     t \in FloatingPointForms \cup {"double_powerlaw", "nosuch"}}
  \cup {[py |-> "callable", drop |-> d] : d \in {0, 1}}

CalculateCalls ==
  {[halo_masses |-> h, shmr_function |-> f, redshift |-> z[1],
    redshift_width |-> z[2], cosmology |-> NoneVal,
    halo_mass_definition |-> "virial", label |-> l,
    reference |-> "Generated SHMR", scatter |-> s,
    stellar_mass_errors |-> e, parameters |-> p, kwargs |-> k] :
     h \in HaloMassArrays, f \in ShmrFunctions,
     z \in {<<0, 2>>, <<2, 0>>, <<2, 4>>, <<0, -2>>},
     l \in {<<"S", "H", "M", "R">>, <<"a", " ", "b">>},
     s \in {NotGiven, Given(<<20>>), Given(<<20, 30, 40>>)},
     e \in {NotGiven, Given(<<1, 2, 3>>)},
     p \in {NoneVal, [ms_norm |-> 100], [beta |-> 1]},
     k \in {NoKeywords, [ms_norm |-> 1000]}}

\* the calls of the constructors: every interval list with the first
\* metadata, and every metadata with a one-interval list
ConstructInputs ==
  {<<raws, meta>> \in RawLists \X MetaInputs :
     \/ meta.haloMassDefinition = "virial" /\ meta.label = <<"a", "1">>
     \/ raws = <<RawInterval([k \in 1..5 |-> MaxLen], 0, 1)>>}

\* the calls of interpolate_shmr: a scipy that builds an interpolant from
\* one knot is tried on the default index, and the log-linear method on
\* the indexes from 0 on and on halo masses that are not empty
InterpolateInputs ==
  {c \in NewHaloMasses \X InterpolateIndexes \X InterpolateMethods
         \X BOOLEAN \X MinEntries :
     /\ c[5] = 2 \/ c[2] = 0
     /\ c[3] = "linear" \/ (c[2] >= 0 /\ c[1] # <<>>)}

\* Files that other programs wrote: the file save_galacticus_shmr writes
\* for two intervals (arrays of one and of two entries), changed in one
\* place.
Restrict(fn, S) == [x \in S |-> fn[x]]

BaseFile ==
  WriteFile([redshift_intervals |-> Ramp(2, TRUE),
             cosmology |-> Planck2018,
             haloMassDefinition |-> "virial",
             label |-> <<"a", "1">>,
             reference |-> "Zhang et al. (2022)"])

WithoutAttr(f, a) == [f EXCEPT !.attrs = Restrict(@, DOMAIN @ \ {a})]

WithoutMembers(f, names) ==
  [f EXCEPT !.members = Restrict(@, DOMAIN @ \ names)]

WithoutGroupAttr(f, name, a) ==
  [f EXCEPT !.members[name].attrs = Restrict(@, DOMAIN @ \ {a})]

WithoutDataset(f, name, dset) ==
  [f EXCEPT !.members[name].dsets = Restrict(@, DOMAIN @ \ {dset})]

\* the dataset given n entries
Resized(f, name, dset, n) ==
  [f EXCEPT !.members[name].dsets[dset].data =
              [i \in 1..n |-> FieldValue(dset, i)]]

WithoutDatasetAttr(f, name, dset, a) ==
  [f EXCEPT !.members[name].dsets[dset].attrs = Restrict(@, DOMAIN @ \ {a})]

\* the group under another name
Renamed(f, old, new) ==
  [f EXCEPT !.members =
     [n \in (DOMAIN @ \ {old}) \cup {new} |->
        IF n = new THEN @[old] ELSE @[n]]]

\* the three string attributes stored with fixed length
FixedStrings(f) ==
  [f EXCEPT !.attrs = [a \in DOMAIN @ |-> FixedStrAttr(@[a].text)]]

NonStandard(f) ==
  [f EXCEPT !.attrs.haloMassDefinition = StrAttr("M200c")]

Group0 == GroupName(0)
Group1 == GroupName(1)

NoIntervalsFile == WithoutMembers(BaseFile, {Group0, Group1})

WrongLengthFile == Resized(BaseFile, Group1, "massStellarScatter", 1)

NonStandardFile == NonStandard(BaseFile)

\* files whose second group has no massHalo: its other datasets as long as
\* one another, or as long as the massHalo of the first group
StaleLengthFiles ==
  {WithoutDataset(BaseFile, Group1, "massHalo"),
   WithoutDataset(Resized(Resized(Resized(Resized(BaseFile,
       Group1, "massStellar", 1), Group1, "massStellarError", 1),
       Group1, "massStellarScatter", 1), Group1, "massStellarScatterError", 1),
     Group1, "massHalo")}

ForeignFiles ==
  {BaseFile, FixedStrings(BaseFile), NonStandardFile, NoIntervalsFile,
   NotHDF5, WithoutMembers(BaseFile, {CosmologyName}),
   Renamed(BaseFile, Group1, IntervalName(<<"X">>)),
   NonStandard(WithoutDatasetAttr(BaseFile, Group0, "massStellar",
                                  "unitsInSI"))}
  \cup {WithoutAttr(BaseFile, a) :
          a \in {"haloMassDefinition", "label", "reference"}}
  \cup {WithoutGroupAttr(BaseFile, CosmologyName, a) :
          a \in Range(CosmologyAttrs)}
  \cup {WithoutGroupAttr(BaseFile, g, a) :
          g \in {Group0, Group1},
          a \in {"redshiftMinimum", "redshiftMaximum"}}
  \cup {WithoutDataset(BaseFile, g, d) :
          g \in {Group0, Group1}, d \in Range(DatasetNames)}
  \cup {Resized(BaseFile, g, d, n) :
          g \in {Group0, Group1}, d \in Range(DatasetNames), n \in {1, 2}}
  \cup {WithoutDatasetAttr(BaseFile, Group1, "massHalo", a) :
          a \in {"description", "unitsInSI"}}
  \cup StaleLengthFiles

\* the few of them that appear beside the files the program saves
StrayFiles == {NoIntervalsFile, WrongLengthFile, NonStandardFile, NotHDF5}

---------------------------------------------------------------------------
(* The calls *)

\* [RedshiftInterval(...) for each argument record]: the first exception
\* ends it, and ValueError is the only one
MakeIntervals(raws) ==
  IF \E i \in DOMAIN raws : RedshiftInterval(raws[i]).exc # "None"
  THEN Raise("ValueError")
  ELSE Ok([i \in DOMAIN raws |-> RedshiftInterval(raws[i]).val])

\* the intervals and then the dataset record, as create_behroozi2010_shmr
\* builds them
MakeDataset(raws, meta) ==
  LET made == MakeIntervals(raws)
  IN  IF made.exc # "None" THEN made
      ELSE GalacticusSHMRData(made.val, meta.cosmology,
                              meta.haloMassDefinition, meta.label,
                              meta.reference)

Init ==
  /\ data = NoneVal
  /\ fs = [p \in Paths |-> NoFile]
  /\ op = [name |-> "init"]
  /\ exc = "None"
  /\ ret = NoneVal

Construct(raws, meta) ==
  /\ op' = [name |-> "construct", intervals |-> raws, label |-> meta.label]
  /\ \E r \in {MakeDataset(raws, meta)} :
       /\ exc' = r.exc
       /\ ret' = r.val
       /\ data' = IF r.exc = "None" THEN r.val ELSE data
       /\ UNCHANGED fs

Save(filepath) ==
  /\ data # NoneVal
  /\ \E r \in {save_galacticus_shmr(fs, data, filepath)} :
       /\ op' = [name |-> "save", filepath |-> filepath]
       /\ exc' = r.exc
       /\ ret' = NoneVal
       /\ fs' = r.fs
       /\ data' = r.arg

Load(filepath) ==
  \E r \in {load_galacticus_shmr(fs, filepath)} :
    /\ op' = [name |-> "load", filepath |-> filepath]
    /\ exc' = r.exc
    /\ ret' = r.val
    /\ UNCHANGED <<data, fs>>

ConstructBlackHole(raws, meta) ==
  /\ op' = [name |-> "construct_bh", intervals |-> raws,
            label |-> meta.label]
  /\ \E r \in {Apply(LAMBDA made :
                       IF made.exc # "None" THEN made
                       ELSE GalacticusBHMRData(made.val, meta.cosmology,
                                               meta.haloMassDefinition,
                                               meta.label, meta.reference),
                     Apply(FirstRaiseOrAll,
                           [i \in DOMAIN raws |->
                              BlackHoleRedshiftInterval(raws[i])]))} :
       /\ exc' = r.exc
       /\ ret' = r.val
       /\ UNCHANGED <<data, fs>>

Calculate(c) ==
  /\ op' = [name |-> "calculate", args |-> c]
  /\ \E values \in FormValues(c) :
     \E r \in {calculate_shmr(c.halo_masses, c.shmr_function, c.redshift,
                               c.redshift_width, c.cosmology, c.parameters,
                               c.halo_mass_definition, c.label, c.reference,
                               c.scatter, c.stellar_mass_errors, c.kwargs,
                               values)} :
       /\ exc' = r.exc
       /\ ret' = r.val
       /\ data' = IF r.exc = "None" THEN r.val ELSE data
       /\ UNCHANGED fs

Interpolate(new_halo_masses, index, method, extrapolate, min_entries) ==
  /\ data # NoneVal
  /\ \E r \in {interpolate_shmr(data, new_halo_masses, index, method,
                                 extrapolate, min_entries)} :
       /\ op' = [name |-> "interpolate", new_halo_masses |-> new_halo_masses,
                 index |-> index, method |-> method,
                 extrapolate |-> extrapolate]
       /\ exc' = r.exc
       /\ ret' = r.val
       /\ data' = r.arg
       /\ UNCHANGED fs

StellarMassFunction(index, min_entries) ==
  /\ data # NoneVal
  /\ \E r \in {calculate_stellar_mass_function(data, LogMassBins, index,
                                                min_entries)} :
       /\ op' = [name |-> "calculate_stellar_mass_function",
                 index |-> index]
       /\ exc' = r.exc
       /\ ret' = r.val
       /\ data' = r.arg
       /\ UNCHANGED fs

Validate(filepath) ==
  \E r \in {validate_galacticus_file(fs, filepath)} :
    /\ op' = [name |-> "validate", filepath |-> filepath]
    /\ exc' = "None"
    /\ ret' = r
    /\ UNCHANGED <<data, fs>>

\* another program leaves a file at the path the scripts write to
ExternalWrite(f) ==
  /\ fs' = [fs EXCEPT ![PathHdf5] = f]
  /\ op' = [name |-> "external"]
  /\ exc' = "None"
  /\ ret' = NoneVal
  /\ UNCHANGED data

Next ==
  \/ \E c \in ConstructInputs : Construct(c[1], c[2])
  \/ \E p \in Paths : Save(p)
  \/ \E p \in Paths : Load(p)
  \/ \E p \in Paths : Validate(p)
  \/ \E f \in StrayFiles : ExternalWrite(f)
  \/ \E c \in BlackHoleInputs : ConstructBlackHole(c[1], c[2])
  \/ \E c \in CalculateInputs : Calculate(c)
  \/ \E c \in InterpolateInputs : Interpolate(c[1], c[2], c[3], c[4], c[5])
  \/ \E i \in {0, 1}, n \in MinEntries : StellarMassFunction(i, n)

Spec == Init /\ [][Next]_vars

\* The reading calls alone, on a directory that holds one foreign file
InitFiles ==
  /\ data = NoneVal
  /\ \E f \in ForeignFiles : fs = [p \in Paths |->
                                     IF p = PathHdf5 THEN f ELSE NoFile]
  /\ op = [name |-> "init"]
  /\ exc = "None"
  /\ ret = NoneVal

NextFiles ==
  \/ \E p \in {PathHdf5, PathH5} : Load(p)
  \/ \E p \in {PathHdf5, PathH5} : Validate(p)

SpecFiles == InitFiles /\ [][NextFiles]_vars

\* The datasets the constructor accepts, of the constructor calls
SavedDatasets ==
  {MakeDataset(c[1], c[2]).val :
     c \in {x \in ConstructInputs : MakeDataset(x[1], x[2]).exc = "None"}}

\* A second run of a script: the file of an earlier run's dataset is at the
\* path, and another dataset is held
InitResave ==
  /\ data \in SavedDatasets
  /\ \E d1 \in SavedDatasets :
       fs = [p \in Paths |-> IF p = PathHdf5 THEN WriteFile(d1) ELSE NoFile]
  /\ op = [name |-> "init"]
  /\ exc = "None"
  /\ ret = NoneVal

\* save_galacticus_shmr(data, filepath), with what the path held before
\* the call kept in op
SaveOver(filepath) ==
  /\ op' = [name |-> "save", filepath |-> filepath, before |-> fs[filepath]]
  /\ \E r \in {save_galacticus_shmr(fs, data, filepath)} :
       /\ exc' = r.exc
       /\ ret' = NoneVal
       /\ fs' = r.fs
       /\ data' = r.arg

NextResave ==
  \/ \E p \in Paths : SaveOver(p)
  \/ \E p \in Paths : Load(p)

SpecResave == InitResave /\ [][NextResave]_vars

\* calculate_shmr alone: one call of it, on arguments drawn at the start
InitCalculate ==
  /\ data = NoneVal
  /\ fs = [p \in Paths |-> NoFile]
  /\ \E c \in CalculateCalls : op = [name |-> "call", args |-> c]
  /\ exc = "None"
  /\ ret = NoneVal

NextCalculate == op.name = "call" /\ Calculate(op.args)

SpecCalculate == InitCalculate /\ [][NextCalculate]_vars

---------------------------------------------------------------------------
(* io_old.py: the earlier API (SHMRData with SHMRMetadata, saved as HDF5,  *)
(* YAML or JSON).  A Python value of the metadata is a record tagged with  *)
(* its type: a str holds its characters, a float a number of tenths, a     *)
(* list its elements and a dict its set of <<key, value>> items.  Keys     *)
(* hold no double underscore.                                              *)

PyNone == [py |-> "NoneType"]
PyStr(chars) == [py |-> "str", text |-> chars]
PyInteger(n) == [py |-> "int", whole |-> n]
PyFloat(tenths) == [py |-> "float", tenths |-> tenths]
PyBool(b) == [py |-> "bool", truth |-> b]
PyList(items) == [py |-> "list", elements |-> items]
PyDict(items) == [py |-> "dict", entries |-> items]

\* a numpy array of floats (tenths), and array.tolist()
NdArray(values) == [dtype |-> "float64", values |-> values]
tolist(array) == PyList([i \in DOMAIN array.values |-> PyFloat(array.values[i])])

\* np.array(list) of a list of floats
np_array(list) ==
  NdArray([i \in DOMAIN list.elements |-> list.elements[i].tenths])

\* float.__repr__ of a float of the model: the whole part, a point and the
\* tenths
FloatRepr(tenths) == IntToStr(tenths \div 10) \o <<".">> \o IntToStr(tenths % 10)

RECURSIVE Join(_, _)
Join(texts, sep) ==
  IF texts = <<>> THEN <<>>
  ELSE IF Len(texts) = 1 THEN texts[1]
  ELSE texts[1] \o sep \o Join(Tail(texts), sep)

\* json.dumps(value) of a str, int, float, bool, None or list of these (the
\* strs of the model hold no character that json escapes)
RECURSIVE JsonDumps(_)
JsonDumps(value) ==
  IF value.py = "str" THEN <<"\"">> \o value.text \o <<"\"">>
  ELSE IF value.py = "int" THEN IntToStr(value.whole)
  ELSE IF value.py = "float" THEN FloatRepr(value.tenths)
  ELSE IF value.py = "bool"
  THEN IF value.truth THEN <<"t", "r", "u", "e">>
       ELSE <<"f", "a", "l", "s", "e">>
  ELSE IF value.py = "NoneType" THEN <<"n", "u", "l", "l">>
  ELSE <<"[">> \o Join([i \in DOMAIN value.elements |->
                          JsonDumps(value.elements[i])],
                       <<",", " ">>) \o <<"]">>

\* the scanner of json.loads
StartsWithAt(s, i, word) ==
  /\ i + Len(word) - 1 <= Len(s)
  /\ SubSeq(s, i, i + Len(word) - 1) = word

RECURSIVE SkipSpaces(_, _)
SkipSpaces(s, i) ==
  IF i <= Len(s) /\ s[i] = " " THEN SkipSpaces(s, i + 1) ELSE i

RECURSIVE EndOfDigits(_, _)
EndOfDigits(s, i) ==
  IF i <= Len(s) /\ IsDigit(s[i]) THEN EndOfDigits(s, i + 1) ELSE i

NoParse == [ok |-> FALSE]
Parsed(value, next) == [ok |-> TRUE, val |-> value, next |-> next]

\* a JSON number at s[i]: digits with no leading zero; a point followed by
\* digits makes it a float (the floats of the model have one decimal)
ScanNumber(s, i) ==
  LET j == EndOfDigits(s, i)
      k == EndOfDigits(s, j + 1)
  IN  IF j = i \/ (s[i] = "0" /\ j > i + 1) THEN NoParse
      ELSE IF j <= Len(s) /\ s[j] = "."
      THEN IF k # j + 2 THEN NoParse
           ELSE Parsed(PyFloat(10 * DigitsValue(SubSeq(s, i, j - 1))
                               + DigitVal(s[j + 1])), k)
      ELSE Parsed(PyInteger(DigitsValue(SubSeq(s, i, j - 1))), j)

RECURSIVE EndOfString(_, _)
EndOfString(s, i) ==
  IF i > Len(s) THEN 0
  ELSE IF s[i] = "\"" THEN i
  ELSE EndOfString(s, i + 1)

RECURSIVE ScanValue(_, _)
RECURSIVE ScanElements(_, _, _)
ScanValue(s, i0) ==
  LET i == SkipSpaces(s, i0)
  IN  IF i > Len(s) THEN NoParse
      ELSE IF s[i] = "["
      THEN LET j == SkipSpaces(s, i + 1)
           IN  IF j <= Len(s) /\ s[j] = "]" THEN Parsed(PyList(<<>>), j + 1)
               ELSE ScanElements(s, j, <<>>)
      ELSE IF s[i] = "\""
      THEN LET e == EndOfString(s, i + 1)
           IN  IF e = 0 THEN NoParse
               ELSE Parsed(PyStr(SubSeq(s, i + 1, e - 1)), e + 1)
      ELSE IF StartsWithAt(s, i, <<"t", "r", "u", "e">>)
      THEN Parsed(PyBool(TRUE), i + 4)
      ELSE IF StartsWithAt(s, i, <<"f", "a", "l", "s", "e">>)
      THEN Parsed(PyBool(FALSE), i + 5)
      ELSE IF StartsWithAt(s, i, <<"n", "u", "l", "l">>)
      THEN Parsed(PyNone, i + 4)
      ELSE ScanNumber(s, i)

ScanElements(s, i, items) ==
  LET r == ScanValue(s, i)
      j == IF r.ok THEN SkipSpaces(s, r.next) ELSE 0
  IN  IF ~r.ok \/ j > Len(s) THEN NoParse
      ELSE IF s[j] = "]" THEN Parsed(PyList(Append(items, r.val)), j + 1)
      ELSE IF s[j] = "," THEN ScanElements(s, j + 1, Append(items, r.val))
      ELSE NoParse

\* json.loads(text): the whole text is one JSON value, or JSONDecodeError
JsonLoads(text) ==
  LET r == ScanValue(text, 1)
  IN  IF r.ok /\ SkipSpaces(text, r.next) = Len(text) + 1 THEN Ok(r.val)
      ELSE Raise("JSONDecodeError")

\* what h5py keeps of an attribute value: a str, or a numpy scalar
H5Str(chars) == [h5 |-> "str", text |-> chars]
H5Int(n) == [h5 |-> "int64", whole |-> n]
H5Float(tenths) == [h5 |-> "float64", tenths |-> tenths]
H5Bool(b) == [h5 |-> "bool_", truth |-> b]

NoneMarker == <<"_", "_", "_", "N", "O", "N", "E", "_", "_", "_">>

\* _save_dict_to_hdf5_attrs(group, data_dict, prefix): the attributes set,
\* each name held as the keys that '__' joins after the prefix
RECURSIVE save_dict_to_hdf5_attrs(_, _)
save_dict_to_hdf5_attrs(data_dict, prefix) ==
  UNION {LET key == item[1]
             value == item[2]
             attr_name == Append(prefix, key)
         IN  IF value.py = "dict"
             THEN save_dict_to_hdf5_attrs(value.entries, attr_name)
             ELSE IF value.py = "list"
             THEN {<<attr_name, H5Str(JsonDumps(value))>>}
             ELSE IF value.py = "NoneType"
             THEN {<<attr_name, H5Str(NoneMarker)>>}
             ELSE IF value.py = "str"
             THEN {<<attr_name, H5Str(value.text)>>}
             ELSE IF value.py = "int"
             THEN {<<attr_name, H5Int(value.whole)>>}
             ELSE IF value.py = "float"
             THEN {<<attr_name, H5Float(value.tenths)>>}
             ELSE {<<attr_name, H5Bool(value.truth)>>} : item \in data_dict}

\* the numpy scalars of _load_dict_from_hdf5_attrs: .item() and bool()
ScalarItem(attr_value) ==
  IF attr_value.h5 = "int64" THEN PyInteger(attr_value.whole)
  ELSE IF attr_value.h5 = "float64" THEN PyFloat(attr_value.tenths)
  ELSE PyBool(attr_value.truth)

\* json.loads(final_value) tried, the str kept when it raises
TryJsonLoads(text) ==
  LET r == JsonLoads(text)
  IN  IF r.exc = "None" THEN r.val ELSE PyStr(text)

\* final_value of a nested attribute ('__' in key_part): only a str that
\* starts with '[' or '{' is parsed as JSON
NestedValue(attr_value) ==
  IF attr_value = H5Str(NoneMarker) THEN PyNone
  ELSE IF attr_value.h5 = "str"
  THEN IF attr_value.text # <<>> /\ attr_value.text[1] \in {"[", "{"}
       THEN TryJsonLoads(attr_value.text)
       ELSE PyStr(attr_value.text)
  ELSE ScalarItem(attr_value)

\* final_value of a direct attribute: every str is parsed as JSON when it
\* can be
DirectValue(attr_value) ==
  IF attr_value = H5Str(NoneMarker) THEN PyNone
  ELSE IF attr_value.h5 = "str" THEN TryJsonLoads(attr_value.text)
  ELSE ScalarItem(attr_value)

\* the dict the nested keys build: a key is a value when an attribute has
\* it as its last key, and a dict of what follows it otherwise
RECURSIVE NestKeys(_)
NestKeys(valued) ==
  {<<key,
     IF \E a \in valued : a[1] = <<key>>
     THEN (CHOOSE a \in valued : a[1] = <<key>>)[2]
     ELSE PyDict(NestKeys({<<Tail(a[1]), a[2]>> :
                             a \in {b \in valued : b[1][1] = key}}))>> :
     key \in {a[1][1] : a \in valued}}

\* _load_dict_from_hdf5_attrs(group, prefix)
load_dict_from_hdf5_attrs(attrs) ==
  NestKeys({<<a[1], IF Len(a[1]) > 1 THEN NestedValue(a[2])
                    ELSE DirectValue(a[2])>> : a \in attrs})

\* SHMRMetadata: the fields every caller gives and those with a default
RequiredFields == {"name", "version", "source_type", "reference"}
OptionalFields == {"redshift", "cosmology", "mass_range", "tags"}

Keys(dict) == {item[1] : item \in dict}
Get(dict, key) == (CHOOSE item \in dict : item[1] = key)[2]

\* SHMRMetadata(**metadata_dict)
SHMRMetadata(metadata_dict) ==
  IF ~(Keys(metadata_dict) \subseteq RequiredFields \cup OptionalFields)
     \/ ~(RequiredFields \subseteq Keys(metadata_dict))
  THEN Raise("TypeError")
  ELSE Ok([f \in RequiredFields \cup OptionalFields |->
             IF f \in Keys(metadata_dict) THEN Get(metadata_dict, f)
             ELSE PyNone])

\* dataclasses.asdict(data.metadata)
asdict(metadata) == {<<f, metadata[f]>> : f \in DOMAIN metadata}

\* SHMRData(halo_mass, stellar_mass, ...): the two mass arrays have the
\* same length
SHMRData(args) ==
  IF Len(args.halo_mass.values) # Len(args.stellar_mass.values)
  THEN Raise("ValueError")
  ELSE Ok(args)

ErrorArrays ==
  {"stellar_mass_err_lower", "stellar_mass_err_upper",
   "halo_mass_err_lower", "halo_mass_err_upper"}

\* _save_hdf5(data, filepath): the file written
save_hdf5(shmr_data) ==
  [format |-> "hdf5",
   datasets |->
     {<<<<n>>, shmr_data[n]>> : n \in {"halo_mass", "stellar_mass"}}
     \cup {<<<<n>>, shmr_data[n]>> :
             n \in {m \in ErrorArrays : shmr_data[m] # PyNone}}
     \cup {<<<<"extra_data", item[1]>>, item[2]>> :
             item \in shmr_data.extra_data},
   attrs |-> save_dict_to_hdf5_attrs(asdict(shmr_data.metadata), <<>>)]

\* _load_hdf5(filepath) of an HDF5 file
load_hdf5(f) ==
  Apply(LAMBDA metadata :
          IF metadata.exc # "None" THEN metadata
          ELSE SHMRData(
                 [n \in {"halo_mass", "stellar_mass"} \cup ErrorArrays
                        \cup {"metadata", "extra_data"} |->
                    IF n = "metadata" THEN metadata.val
                    ELSE IF n = "extra_data"
                    THEN {<<d[1][2], d[2]>> :
                            d \in {e \in f.datasets : Len(e[1]) = 2}}
                    ELSE IF \E d \in f.datasets : d[1] = <<n>>
                    THEN (CHOOSE d \in f.datasets : d[1] = <<n>>)[2]
                    ELSE PyNone]),
        SHMRMetadata(load_dict_from_hdf5_attrs(f.attrs)))

\* output_dict of _save_yaml and _save_json: the metadata, and a data
\* section that the extra arrays are written to after the standard ones
output_dict(shmr_data) ==
  PyDict({<<"metadata", PyDict(asdict(shmr_data.metadata))>>,
          <<"data",
            PyDict({<<n, tolist(shmr_data[n])>> :
                      n \in {m \in {"halo_mass", "stellar_mass"}
                                    \cup ErrorArrays :
                               /\ shmr_data[m] # PyNone
                               /\ m \notin Keys(shmr_data.extra_data)}}
                   \cup {<<item[1], tolist(item[2])>> :
                           item \in shmr_data.extra_data})>>})

\* yaml.dump: every value becomes a node whose tag is its type; a scalar
\* is written so that it is read back with that tag
RECURSIVE yaml_dump(_)
yaml_dump(value) ==
  IF value.py = "dict"
  THEN [yaml |-> "map",
        pairs |-> {<<item[1], yaml_dump(item[2])>> : item \in value.entries}]
  ELSE IF value.py = "list"
  THEN [yaml |-> "seq",
        nodes |-> [i \in DOMAIN value.elements |->
                     yaml_dump(value.elements[i])]]
  ELSE IF value.py = "str" THEN [yaml |-> "str", text |-> value.text]
  ELSE IF value.py = "int" THEN [yaml |-> "int", text |-> IntToStr(value.whole)]
  ELSE IF value.py = "float"
  THEN [yaml |-> "float", text |-> FloatRepr(value.tenths)]
  ELSE IF value.py = "bool"
  THEN [yaml |-> "bool", text |-> IF value.truth THEN <<"t", "r", "u", "e">>
                                  ELSE <<"f", "a", "l", "s", "e">>]
  ELSE [yaml |-> "null", text |-> <<"n", "u", "l", "l">>]

\* yaml.safe_load
RECURSIVE yaml_safe_load(_)
yaml_safe_load(node) ==
  IF node.yaml = "map"
  THEN PyDict({<<p[1], yaml_safe_load(p[2])>> : p \in node.pairs})
  ELSE IF node.yaml = "seq"
  THEN PyList([i \in DOMAIN node.nodes |-> yaml_safe_load(node.nodes[i])])
  ELSE IF node.yaml = "str" THEN PyStr(node.text)
  ELSE IF node.yaml \in {"int", "float"} THEN ScanNumber(node.text, 1).val
  ELSE IF node.yaml = "bool" THEN PyBool(node.text = <<"t", "r", "u", "e">>)
  ELSE PyNone

\* json.dump: objects and arrays, and the text of every other value
RECURSIVE json_dump(_)
json_dump(value) ==
  IF value.py = "dict"
  THEN [json |-> "object",
        members |-> {<<item[1], json_dump(item[2])>> : item \in value.entries}]
  ELSE IF value.py = "list"
  THEN [json |-> "array",
        items |-> [i \in DOMAIN value.elements |->
                     json_dump(value.elements[i])]]
  ELSE [json |-> "text", text |-> JsonDumps(value)]

\* json.load
RECURSIVE json_load(_)
json_load(doc) ==
  IF doc.json = "object"
  THEN PyDict({<<m[1], json_load(m[2])>> : m \in doc.members})
  ELSE IF doc.json = "array"
  THEN PyList([i \in DOMAIN doc.items |-> json_load(doc.items[i])])
  ELSE JsonLoads(doc.text).val

\* _save_yaml(data, filepath) and _save_json(data, filepath): the file
save_yaml(shmr_data) ==
  [format |-> "yaml", doc |-> yaml_dump(output_dict(shmr_data))]
save_json(shmr_data) ==
  [format |-> "json", doc |-> json_dump(output_dict(shmr_data))]

\* the end of _load_yaml and _load_json, data_dict read
FromDataDict(data_dict) ==
  LET data_section == Get(data_dict.entries, "data").entries
  IN  Apply(LAMBDA metadata :
              IF metadata.exc # "None" THEN metadata
              ELSE SHMRData(
                     [n \in {"halo_mass", "stellar_mass"} \cup ErrorArrays
                            \cup {"metadata", "extra_data"} |->
                        IF n = "metadata" THEN metadata.val
                        ELSE IF n = "extra_data"
                        THEN {<<item[1], np_array(item[2])>> :
                                item \in {e \in data_section :
                                            e[1] \notin
                                              {"halo_mass", "stellar_mass"}
                                              \cup ErrorArrays}}
                        ELSE IF n \in Keys(data_section)
                        THEN np_array(Get(data_section, n))
                        ELSE PyNone]),
            SHMRMetadata(Get(data_dict.entries, "metadata").entries))

\* the format save_shmr writes: the one given, or with 'auto' the one the
\* suffix of the path stands for
SaveFormat(filepath, format) ==
  IF format # "auto" THEN Ok(format)
  ELSE IF Suffix(filepath) = <<".", "h", "5">> THEN Ok("hdf5")
  ELSE IF Suffix(filepath) = <<".", "y", "a", "m", "l">> THEN Ok("yaml")
  ELSE IF Suffix(filepath) = <<".", "j", "s", "o", "n">> THEN Ok("json")
  ELSE Raise("ValueError")

mutant_LoadFormat(filepath, format) ==
  IF format # "auto" THEN Ok(format)
  ELSE IF Suffix(filepath) = <<".", "h", "5">> THEN Ok("hdf5")
  ELSE IF Suffix(filepath) = <<".", "y", "a", "m", "l">> THEN Ok("json")
  ELSE IF Suffix(filepath) = <<".", "j", "s", "o", "n">> THEN Ok("json")
  ELSE Raise("ValueError")

\* the format load_shmr reads, chosen in the same way by its own code
LoadFormat(filepath, format) ==
  IF format # "auto" THEN Ok(format)
  ELSE IF Suffix(filepath) = <<".", "h", "5">> THEN Ok("hdf5")
  ELSE IF Suffix(filepath) = <<".", "y", "a", "m", "l">> THEN Ok("yaml")
  ELSE IF Suffix(filepath) = <<".", "j", "s", "o", "n">> THEN Ok("json")
  ELSE Raise("ValueError")

\* save_shmr(data, filepath, format): the exception and the file system
\* after the call
save_shmr(fsys, shmr_data, filepath, format) ==
  LET inferred == SaveFormat(filepath, format)
  IN  IF inferred.exc # "None" THEN [exc |-> inferred.exc, fs |-> fsys]
      ELSE IF inferred.val = "hdf5"
      THEN [exc |-> "None",
            fs |-> [fsys EXCEPT ![filepath] = save_hdf5(shmr_data)]]
      ELSE IF inferred.val = "yaml"
      THEN [exc |-> "None",
            fs |-> [fsys EXCEPT ![filepath] = save_yaml(shmr_data)]]
      ELSE IF inferred.val = "json"
      THEN [exc |-> "None",
            fs |-> [fsys EXCEPT ![filepath] = save_json(shmr_data)]]
      ELSE [exc |-> "ValueError", fs |-> fsys]

\* the exceptions of a reader given a file of another format: h5py cannot
\* open a text file; a text reader cannot decode an HDF5 file or, where the
\* locale decodes every byte, cannot parse it; JSON is not block YAML
ReadErrors(loader, f) ==
  IF loader = "hdf5" THEN {"OSError"}
  ELSE IF f.format = "hdf5"
  THEN {"UnicodeDecodeError",
        IF loader = "yaml" THEN "ReaderError" ELSE "JSONDecodeError"}
  ELSE {"JSONDecodeError"}

\* load_shmr(filepath, format): the results it can have
load_shmr(fsys, filepath, format) ==
  IF fsys[filepath] = NoFile THEN {Raise("FileNotFoundError")}
  ELSE LET inferred == LoadFormat(filepath, format)
           f == fsys[filepath]
       IN  IF inferred.exc # "None" THEN {inferred}
           ELSE IF inferred.val = "hdf5"
           THEN IF f.format = "hdf5" THEN {load_hdf5(f)}
                ELSE {Raise(e) : e \in ReadErrors("hdf5", f)}
           ELSE IF inferred.val = "yaml"
           THEN IF f.format = "yaml"
                THEN {FromDataDict(yaml_safe_load(f.doc))}
                ELSE IF f.format = "json"
                THEN {FromDataDict(json_load(f.doc))}
                ELSE {Raise(e) : e \in ReadErrors("yaml", f)}
           ELSE IF inferred.val = "json"
           THEN IF f.format = "json" THEN {FromDataDict(json_load(f.doc))}
                ELSE {Raise(e) : e \in ReadErrors("json", f)}
           ELSE {Raise("ValueError")}

\* jsonschema.validate(metadata_dict, METADATA_SCHEMA) passes: the fields
\* every caller gives are strs
SchemaConforms(metadata_dict) ==
  \A f \in RequiredFields :
    f \in Keys(metadata_dict) /\ Get(metadata_dict, f).py = "str"

\* data.has_stellar_mass_errors() and data.has_halo_mass_errors()
has_stellar_mass_errors(shmr_data) ==
  \/ shmr_data.stellar_mass_err_lower # PyNone
  \/ shmr_data.stellar_mass_err_upper # PyNone
has_halo_mass_errors(shmr_data) ==
  \/ shmr_data.halo_mass_err_lower # PyNone
  \/ shmr_data.halo_mass_err_upper # PyNone

\* np.all(halo_mass[:-1] <= halo_mass[1:])
IsSortedArray(a) == \A i \in 1..(Len(a) - 1) : a[i] <= a[i + 1]

\* the checks of validate_shmr in the order of the code: what fails, and
\* the error it appends
ShmrChecks(shmr_data) ==
  <<[failed |-> ~SchemaConforms(asdict(shmr_data.metadata)),
     error |-> "Metadata validation error"],
    [failed |-> Len(shmr_data.halo_mass.values)
                  # Len(shmr_data.stellar_mass.values),
     error |-> "Halo mass and stellar mass arrays have different lengths"],
    [failed |-> \E i \in DOMAIN shmr_data.halo_mass.values :
                  shmr_data.halo_mass.values[i] <= 0,
     error |-> "Halo masses must be positive"],
    [failed |-> \E i \in DOMAIN shmr_data.stellar_mass.values :
                  shmr_data.stellar_mass.values[i] <= 0,
     error |-> "Stellar masses must be positive"],
    [failed |-> /\ has_stellar_mass_errors(shmr_data)
                /\ shmr_data.stellar_mass_err_lower # PyNone
                /\ Len(shmr_data.stellar_mass_err_lower.values)
                     # Len(shmr_data.stellar_mass.values),
     error |-> "Stellar mass lower error array length mismatch"],
    [failed |-> /\ has_stellar_mass_errors(shmr_data)
                /\ shmr_data.stellar_mass_err_upper # PyNone
                /\ Len(shmr_data.stellar_mass_err_upper.values)
                     # Len(shmr_data.stellar_mass.values),
     error |-> "Stellar mass upper error array length mismatch"],
    [failed |-> /\ has_halo_mass_errors(shmr_data)
                /\ shmr_data.halo_mass_err_lower # PyNone
                /\ Len(shmr_data.halo_mass_err_lower.values)
                     # Len(shmr_data.halo_mass.values),
     error |-> "Halo mass lower error array length mismatch"],
    [failed |-> /\ has_halo_mass_errors(shmr_data)
                /\ shmr_data.halo_mass_err_upper # PyNone
                /\ Len(shmr_data.halo_mass_err_upper.values)
                     # Len(shmr_data.halo_mass.values),
     error |-> "Halo mass upper error array length mismatch"]>>

IsFailed(check) == check.failed

mutant_validate_shmr(shmr_data) ==
  LET failed == SelectSeq(ShmrChecks(shmr_data), IsFailed)
  IN  [valid |-> failed = <<>> /\ IsSortedArray(shmr_data.halo_mass.values),
       errors |-> [i \in DOMAIN failed |-> failed[i].error],
       warnings |-> IF IsSortedArray(shmr_data.halo_mass.values) THEN <<>>
                    ELSE <<"Halo mass array is not sorted">>]

\* validate_shmr(data)
validate_shmr(shmr_data) ==
  LET failed == SelectSeq(ShmrChecks(shmr_data), IsFailed)
  IN  [valid |-> failed = <<>>,
       errors |-> [i \in DOMAIN failed |-> failed[i].error],
       warnings |-> IF IsSortedArray(shmr_data.halo_mass.values) THEN <<>>
                    ELSE <<"Halo mass array is not sorted">>]

\* the datasets of the earlier API that a script builds: the metadata of
\* the tests, and the same changed in one field
LegacyMetadata ==
  [name |-> PyStr(<<"T">>), version |-> PyStr(<<"1", ".", "0">>),
   source_type |-> PyStr(<<"t", "e", "s", "t">>),
   reference |-> PyStr(<<"R">>), redshift |-> PyFloat(0),
   cosmology |-> PyDict({<<"h", PyFloat(7)>>, <<"omega_m", PyFloat(3)>>}),
   mass_range |-> PyNone,
   tags |-> PyList(<<PyStr(<<"a">>), PyStr(<<"z", "0">>)>>)]

LegacyMetadatas ==
  {LegacyMetadata,
   [LegacyMetadata EXCEPT !.version = PyStr(<<"v", "1">>)],
   [LegacyMetadata EXCEPT !.version = PyStr(<<"v", "1">>),
                          !.name = PyStr(<<"7">>)],
   [LegacyMetadata EXCEPT !.version = PyStr(<<"v", "1">>),
                          !.tags = PyList(<<>>)],
   [LegacyMetadata EXCEPT !.version = PyStr(<<"v", "1">>),
                          !.tags = PyNone, !.redshift = PyNone],
   [LegacyMetadata EXCEPT !.version = PyStr(<<"v", "1">>),
                          !.cosmology = PyDict({})],
   [LegacyMetadata EXCEPT !.version = PyStr(<<"v", "1">>),
                          !.cosmology = PyNone,
                          !.mass_range =
                            PyDict({<<"halo_mass_min", PyFloat(10)>>})]}

MassArray(n, first) == NdArray([i \in 1..n |-> first * i])

LegacyArrays ==
  [halo_mass |-> MassArray(MaxLen, 100), stellar_mass |-> MassArray(MaxLen, 10),
   stellar_mass_err_lower |-> PyNone, stellar_mass_err_upper |-> PyNone,
   halo_mass_err_lower |-> PyNone, halo_mass_err_upper |-> PyNone,
   extra_data |-> {}]

LegacyDatasets ==
  {[n \in DOMAIN a \cup {"metadata"} |-> IF n = "metadata" THEN m ELSE a[n]] :
     m \in LegacyMetadatas,
     a \in {LegacyArrays,
            [LegacyArrays EXCEPT
               !.stellar_mass_err_lower = MassArray(MaxLen, 1),
               !.stellar_mass_err_upper = MassArray(MaxLen, 2),
               !.extra_data = {<<"sfr", MassArray(MaxLen, 3)>>}],
            [LegacyArrays EXCEPT
               !.extra_data = {<<"halo_mass_err_upper",
                                 MassArray(MaxLen, 4)>>}]}}

\* the datasets validate_shmr is given: arrays that can be assigned to the
\* fields of an SHMRData, with metadata as built and as loaded
ValidatedDatasets ==
  {[halo_mass |-> NdArray(h), stellar_mass |-> NdArray(s),
    stellar_mass_err_lower |-> e[1], stellar_mass_err_upper |-> e[2],
    halo_mass_err_lower |-> e[3], halo_mass_err_upper |-> PyNone,
    extra_data |-> {}, metadata |-> m] :
     h \in {<<>>, <<100, 200>>, <<200, 100>>, <<100, 0>>, <<200, -100>>},
     s \in {<<>>, <<10, 20>>, <<10, 0>>, <<10>>},
     e \in {<<PyNone, PyNone, PyNone>>,
            <<MassArray(2, 1), MassArray(2, 1), PyNone>>,
            <<MassArray(2, 1), MassArray(1, 1), PyNone>>,
            <<PyNone, PyNone, MassArray(MaxLen + 1, 1)>>},
     m \in {LegacyMetadata, [LegacyMetadata EXCEPT !.name = PyInteger(7)]}}

LegacyPaths ==
  {<<"d", ".", "h", "5">>, <<"d", ".", "y", "a", "m", "l">>,
   <<"d", ".", "j", "s", "o", "n">>, <<"d", ".", "h", "d", "f", "5">>}

LegacyFormats == {"auto", "hdf5", "csv"}

SaveShmr(filepath, format) ==
  LET r == save_shmr(fs, data, filepath, format)
  IN  /\ op' = [name |-> "save_shmr", filepath |-> filepath,
                format |-> format]
      /\ exc' = r.exc
      /\ fs' = r.fs
      /\ ret' = NoneVal
      /\ UNCHANGED data

LoadShmr(filepath, format) ==
  \E r \in load_shmr(fs, filepath, format) :
    /\ op' = [name |-> "load_shmr", filepath |-> filepath, format |-> format]
    /\ exc' = r.exc
    /\ ret' = r.val
    /\ UNCHANGED <<data, fs>>

ValidateShmr ==
  /\ op' = [name |-> "validate_shmr"]
  /\ exc' = "None"
  /\ ret' = validate_shmr(data)
  /\ UNCHANGED <<data, fs>>

\* a script of the earlier API: it builds a dataset, then saves and loads
InitLegacy ==
  /\ data \in LegacyDatasets
  /\ fs = [p \in LegacyPaths |-> NoFile]
  /\ op = [name |-> "init"]
  /\ exc = "None"
  /\ ret = NoneVal

NextLegacy ==
  \/ \E p \in LegacyPaths, f \in LegacyFormats : SaveShmr(p, f)
  \/ \E p \in LegacyPaths, f \in LegacyFormats : LoadShmr(p, f)

SpecLegacy == InitLegacy /\ [][NextLegacy]_vars

\* validate_shmr alone, on a dataset drawn at the start
InitValidateShmr ==
  /\ data \in ValidatedDatasets
  /\ fs = [p \in LegacyPaths |-> NoFile]
  /\ op = [name |-> "init"]
  /\ exc = "None"
  /\ ret = NoneVal

NextValidateShmr == ValidateShmr

SpecValidateShmr == InitValidateShmr /\ [][NextValidateShmr]_vars

---------------------------------------------------------------------------
(* scripts/validate.py *)

\* fnmatch on a file name, as Path.rglob applies it: '*' stands for any run
\* of characters, '?' for one character, any other character for itself
RECURSIVE fnmatch(_, _)
fnmatch(name, pattern) ==
  IF pattern = <<>> THEN name = <<>>
  ELSE IF Head(pattern) = "*"
  THEN \/ fnmatch(name, Tail(pattern))
       \/ name # <<>> /\ fnmatch(Tail(name), pattern)
  ELSE /\ name # <<>>
       /\ Head(pattern) = "?" \/ Head(pattern) = Head(name)
       /\ fnmatch(Tail(name), Tail(pattern))

\* the directory given to the script, and a path that is nowhere
DataDirectory == [parts |-> <<"data">>, name |-> <<>>]
MissingPath == [parts |-> <<"nowhere">>, name |-> <<>>]

\* the places of the files under the directory: the directory itself and a
\* directory inside it
TreePaths ==
  {[parts |-> d, name |-> n] :
     d \in {<<"data">>, <<"data", "theory">>}, n \in {PathHdf5, PathH5}}

\* path.exists(), path.is_file(), path.is_dir()
is_file(fsys, path) == path \in DOMAIN fsys /\ fsys[path] # NoFile
is_dir(fsys, path) == path = DataDirectory
exists(fsys, path) == is_file(fsys, path) \/ is_dir(fsys, path)

\* directory.rglob(pattern): the files at any depth under the directory
\* whose name matches the pattern
rglob(fsys, directory, pattern) ==
  {p \in DOMAIN fsys :
     /\ fsys[p] # NoFile
     /\ Len(p.parts) >= Len(directory.parts)
     /\ SubSeq(p.parts, 1, Len(directory.parts)) = directory.parts
     /\ fnmatch(p.name, pattern)}

\* detect_file_type(filepath)
detect_file_type(fsys, filepath) ==
  IF fsys[filepath] \in {NoFile, NotHDF5} THEN "unknown"
  ELSE LET interval_groups == IntervalNames(fsys[filepath])
       IN  IF interval_groups = <<>> THEN "unknown"
           ELSE LET group == fsys[filepath].members[interval_groups[1]]
                IN  IF "massStellar" \in DOMAIN group.dsets THEN "shmr"
                    ELSE IF "massBlackHole" \in DOMAIN group.dsets
                    THEN "bhmr"
                    ELSE "unknown"

\* validate_file(filepath): the results of the validator of the detected
\* type; print_galacticus_file_info keeps its errors to itself.  The files
\* of the tree hold no massBlackHole dataset.
validate_file(fsys, filepath) ==
  IF detect_file_type(fsys, filepath) = "bhmr"
  THEN [valid |-> FALSE, errors |-> <<>>, warnings |-> <<>>]
  ELSE validate_galacticus_file(fsys, filepath)

\* validate_directory(directory): the files it validates and its summary
validate_directory(fsys, directory) ==
  LET hdf5_files == rglob(fsys, directory, <<"*", ".", "h", "d", "f", "5">>)
      valid_files == {p \in hdf5_files : validate_file(fsys, p).valid}
  IN  [validated |-> hdf5_files,
       total |-> Cardinality(hdf5_files),
       valid |-> Cardinality(valid_files),
       invalid |-> Cardinality(hdf5_files \ valid_files)]

\* main(): what sys.exit is given and the files that were validated
main(fsys, args) ==
  IF ~exists(fsys, args.path) THEN [code |-> 1, validated |-> {}]
  ELSE IF is_file(fsys, args.path)
  THEN [code |-> IF validate_file(fsys, args.path).valid THEN 0 ELSE 1,
        validated |-> {args.path}]
  ELSE LET summary == validate_directory(fsys, args.path)
       IN  [code |-> IF summary.invalid = 0 THEN 0 ELSE 1,
            validated |-> summary.validated]

\* --pattern: the default and two others
Patterns ==
  {<<"*", ".", "h", "d", "f", "5">>, <<"*", ".", "h", "5">>,
   <<"d", ".", "*">>}

\* the command lines: a path and a pattern
CommandLines ==
  {[path |-> p, pattern |-> g] :
     p \in {DataDirectory, MissingPath, [parts |-> <<"data">>, name |-> PathH5]},
     g \in Patterns}

\* one run of the script on a tree of files
InitValidateScript ==
  /\ data = NoneVal
  /\ fs \in [TreePaths -> {NoFile, BaseFile, WrongLengthFile}]
  /\ \E args \in CommandLines : op = [name |-> "argv", args |-> args]
  /\ exc = "None"
  /\ ret = NoneVal

ValidateScript ==
  /\ op.name = "argv"
  /\ op' = [name |-> "main", args |-> op.args]
  /\ exc' = "SystemExit"
  /\ ret' = main(fs, op.args)
  /\ UNCHANGED <<data, fs>>

NextValidateScript == ValidateScript

SpecValidateScript == InitValidateScript /\ [][NextValidateScript]_vars

---------------------------------------------------------------------------
(* scripts/create_trinity_bhmr.py *)

\* Redshifts are counted in twentieths, so that the half sum of two of the
\* redshifts below is a whole number of them: 0.5 is ten twentieths.
HalfRedshift == 10

\* np.sort(redshifts)
np_sort(redshifts) ==
  CHOOSE z_sorted \in [DOMAIN redshifts -> Range(redshifts)] :
    /\ \A i, j \in DOMAIN z_sorted : i <= j => z_sorted[i] <= z_sorted[j]
    /\ \A v \in Range(redshifts) :
         Cardinality({i \in DOMAIN z_sorted : z_sorted[i] = v})
           = Cardinality({i \in DOMAIN redshifts : redshifts[i] = v})

\* the (z_min, z_max) that the loop body gives the i-th sorted redshift
RedshiftBin(z_sorted, i) ==
  LET z == z_sorted[i]
  IN  IF i = 1
      THEN <<0, IF i + 1 <= Len(z_sorted)
                THEN (z + z_sorted[i + 1]) \div 2
                ELSE z + HalfRedshift>>
      ELSE IF i = Len(z_sorted)
      THEN <<(z_sorted[i - 1] + z) \div 2, z + HalfRedshift>>
      ELSE <<(z_sorted[i - 1] + z) \div 2, (z + z_sorted[i + 1]) \div 2>>

mutant_calculate_redshift_bins(redshifts) ==
  [z \in Range(redshifts) |->
     RedshiftBin(redshifts,
                 CHOOSE i \in DOMAIN redshifts :
                   /\ redshifts[i] = z
                   /\ \A j \in DOMAIN redshifts : redshifts[j] = z => j <= i)]

\* calculate_redshift_bins(redshifts): the dict z_bins, in which a later
\* z_bins[z] = ... replaces an earlier one of the same z
calculate_redshift_bins(redshifts) ==
  LET z_sorted == np_sort(redshifts)
  IN  [z \in Range(z_sorted) |->
         RedshiftBin(z_sorted,
                     CHOOSE i \in DOMAIN z_sorted :
                       /\ z_sorted[i] = z
                       /\ \A j \in DOMAIN z_sorted : z_sorted[j] = z => j <= i)]

\* the redshifts of the arrays: z = -0.1, 0, 0.1, 0.3 and 1.5
RedshiftValues == {-2, 0, 2, 6, 30}

\* the arrays given to calculate_redshift_bins, in any order
RedshiftArrays ==
  UNION {[1..n -> RedshiftValues] : n \in 1..MaxRedshifts}

\* one call of calculate_redshift_bins
InitRedshiftBins ==
  /\ data = NoneVal
  /\ fs = [p \in Paths |-> NoFile]
  /\ \E redshifts \in RedshiftArrays :
       op = [name |-> "redshifts", redshifts |-> redshifts]
  /\ exc = "None"
  /\ ret = NoneVal

CalculateRedshiftBins ==
  /\ op.name = "redshifts"
  /\ op' = [name |-> "calculate_redshift_bins", redshifts |-> op.redshifts]
  /\ exc' = "None"
  /\ ret' = calculate_redshift_bins(op.redshifts)
  /\ UNCHANGED <<data, fs>>

NextRedshiftBins == CalculateRedshiftBins

SpecRedshiftBins == InitRedshiftBins /\ [][NextRedshiftBins]_vars

---------------------------------------------------------------------------
(* Properties *)

\* the calls that return a dataset record
DatasetCalls ==
  {"construct", "construct_bh", "load", "calculate", "interpolate"}

\* the dataset records the program holds: the one the script keeps and the
\* one the last call returned
HeldDatasets ==
  (IF data # NoneVal THEN {data} ELSE {})
  \cup (IF op.name \in DatasetCalls /\ exc = "None" THEN {ret} ELSE {})

\* the five arrays of an interval of either kind
ArraysOf(iv) ==
  {iv[n] : n \in DOMAIN iv \ {"redshiftMinimum", "redshiftMaximum"}}

EqualLengths(iv) == \A a, b \in ArraysOf(iv) : Len(a) = Len(b)

IsHDF5(f) == f # NoFile /\ f # NotHDF5

\* C1: every interval of every dataset held has five arrays of one length,
\* a constructor given an interval whose arrays differ in length raises
\* ValueError, and so does loading a file with such a group.
C1_EqualLengths ==
  /\ \A d \in HeldDatasets :
       \A i \in DOMAIN d.redshift_intervals :
         EqualLengths(d.redshift_intervals[i])
  /\ op.name \in {"construct", "construct_bh"}
       /\ (\E i \in DOMAIN op.intervals : ~EqualLengths(op.intervals[i]))
     => exc = "ValueError"
  /\ op.name = "load" /\ fs[op.filepath] = WrongLengthFile
     => exc = "ValueError"

C1_Witness ==
  /\ op.name = "construct"
  /\ \E i \in DOMAIN op.intervals : ~EqualLengths(op.intervals[i])
  /\ exc = "ValueError"
  /\ data # NoneVal

\* C2: a file that save_galacticus_shmr has just written loads to a dataset
\* equal to the saved one in every field, and load_galacticus_shmr of a file
\* that is what save writes for the dataset held returns that dataset; this
\* covers datasets of more than ten intervals.
C2_RoundTrip ==
  /\ op.name = "save" /\ exc = "None"
     => load_galacticus_shmr(fs, op.filepath) = Ok(data)
  /\ op.name = "load" /\ data # NoneVal
       /\ fs[op.filepath] = WriteFile(data)
     => exc = "None" /\ ret = data

C2_Witness ==
  /\ op.name = "load"
  /\ exc = "None"
  /\ data # NoneVal
  /\ fs[op.filepath] = WriteFile(data)
  /\ Len(ret.redshift_intervals) > 10
  /\ ret = data

\* C3: no dataset held has zero intervals, a constructor given an empty
\* interval list raises ValueError, and loading an HDF5 file with no
\* redshiftInterval group raises.
C3_AtLeastOneInterval ==
  /\ \A d \in HeldDatasets : Len(d.redshift_intervals) >= 1
  /\ op.name \in {"construct", "construct_bh"} /\ op.intervals = <<>>
     => exc = "ValueError"
  /\ op.name = "load" /\ IsHDF5(fs[op.filepath])
       /\ (\A n \in DOMAIN fs[op.filepath].members : ~IsIntervalName(n))
     => exc # "None"

C3_Witness ==
  /\ op.name = "load"
  /\ fs[op.filepath] = NoIntervalsFile
  /\ exc = "ValueError"

\* the file has what the format asks for: the three top-level attributes,
\* a cosmology group with its four attributes, and one or more groups whose
\* name starts with 'redshiftInterval', each with both redshift attributes
\* and all five datasets, of one length
WellFormedGroup(g) ==
  /\ {"redshiftMinimum", "redshiftMaximum"} \subseteq DOMAIN g.attrs
  /\ Range(DatasetNames) \subseteq DOMAIN g.dsets
  /\ \A a, b \in Range(DatasetNames) :
       Len(g.dsets[a].data) = Len(g.dsets[b].data)

WellFormed(f) ==
  /\ IsHDF5(f)
  /\ {"haloMassDefinition", "label", "reference"} \subseteq DOMAIN f.attrs
  /\ CosmologyName \in DOMAIN f.members
  /\ Range(CosmologyAttrs) \subseteq DOMAIN f.members[CosmologyName].attrs
  /\ \E n \in DOMAIN f.members : IsIntervalName(n)
  /\ \A n \in DOMAIN f.members :
       IsIntervalName(n) => WellFormedGroup(f.members[n])

\* C4: validate_galacticus_file returns valid = True exactly when the file
\* exists, is readable, and has the attributes, the cosmology group and the
\* interval groups (one or more, each complete and of one length) that the
\* format asks for.
C4_ValidIffWellFormed ==
  op.name = "validate" => (ret.valid <=> WellFormed(fs[op.filepath]))

C4_Witness ==
  /\ op.name = "validate"
  /\ ret.valid
  /\ IntervalName(<<"X">>) \in DOMAIN fs[op.filepath].members

\* each interval starts at or after the one before it
Ordered(intervals) ==
  \A i \in 2..Len(intervals) :
    intervals[i].redshiftMinimum >= intervals[i - 1].redshiftMinimum

\* C5 as stated: in every dataset constructed, saved or loaded each
\* interval's redshiftMinimum is at least that of the interval before it.
C5_Ordered == \A d \in HeldDatasets : Ordered(d.redshift_intervals)

\* C5 as amended: a dataset built from a list in ascending order of
\* redshiftMinimum is in that order, and a file saved from a dataset in
\* that order loads to a dataset in that order.
C5_OrderKept ==
  /\ op.name = "construct" /\ exc = "None" /\ Ordered(op.intervals)
     => Ordered(ret.redshift_intervals)
  /\ op.name = "save" /\ exc = "None" /\ Ordered(data.redshift_intervals)
     => Ordered(load_galacticus_shmr(fs, op.filepath).val.redshift_intervals)
  /\ op.name = "load" /\ data # NoneVal
       /\ fs[op.filepath] = WriteFile(data)
       /\ Ordered(data.redshift_intervals)
     => exc = "None" /\ Ordered(ret.redshift_intervals)

C5_Witness ==
  /\ op.name = "load"
  /\ exc = "None"
  /\ Len(ret.redshift_intervals) > 10
  /\ data # NoneVal
  /\ fs[op.filepath] = WriteFile(data)
  /\ Ordered(data.redshift_intervals)
  /\ Ordered(ret.redshift_intervals)

\* exact membership in the nine strings
Standard(definition) ==
  \E i \in DOMAIN GALACTICUS_HALO_MASS_DEFINITIONS :
    GALACTICUS_HALO_MASS_DEFINITIONS[i] = definition

\* C6 as stated: every dataset held in memory has a haloMassDefinition that
\* is one of the nine standard strings.
C6_StandardDefinition ==
  \A d \in HeldDatasets : Standard(d.haloMassDefinition)

\* C6 as amended: save_galacticus_shmr raises ValueError for a dataset
\* whose haloMassDefinition is not one of the nine strings, so every file
\* it writes carries one of them, and so does the dataset loaded from a
\* file it wrote.
C6_SavedDefinitionStandard ==
  /\ op.name = "save" /\ ~Standard(data.haloMassDefinition)
     => exc = "ValueError"
  /\ op.name = "save" /\ exc = "None"
     => /\ Standard(fs[op.filepath].attrs.haloMassDefinition.text)
        /\ Standard(load_galacticus_shmr(fs, op.filepath).val
                      .haloMassDefinition)
  /\ op.name = "load" /\ exc = "None" /\ fs[op.filepath] \notin StrayFiles
     => Standard(ret.haloMassDefinition)

C6_Witness ==
  /\ op.name = "save"
  /\ ~Standard(data.haloMassDefinition)
  /\ exc = "ValueError"

\* the calls that are given the dataset held and must leave it as it is
ReadingCalls == {"save", "interpolate", "calculate_stellar_mass_function"}

\* C7: a call of save_galacticus_shmr, interpolate_shmr or
\* calculate_stellar_mass_function leaves the dataset it is given unchanged
\* in every field, and the record interpolate_shmr returns is another one.
C7_NoMutation ==
  [][op'.name \in ReadingCalls
       => /\ data' = data
          /\ op'.name = "interpolate" /\ exc' = "None" => ret' # data']_vars

C7_Witness ==
  /\ op.name = "interpolate"
  /\ exc = "None"
  /\ Len(data.redshift_intervals) > 1
  /\ ret.label # data.label

H5Suffix == <<".", "h", "5">>

\* C8 as stated: given a dataset it can save, save_galacticus_shmr writes
\* the file when the path ends with .h5 or .hdf5 and raises ValueError for
\* any other extension.
C8_BothSuffixes ==
  op.name = "save" /\ Standard(data.haloMassDefinition)
  => IF Suffix(op.filepath) \in {H5Suffix, HDF5Suffix}
     THEN exc = "None" /\ fs[op.filepath] = WriteFile(data)
     ELSE exc = "ValueError"

\* every character is alphanumeric, an underscore or a hyphen
AllowedCharacters(label) ==
  \A i \in DOMAIN label : IsAlnumChar(label[i]) \/ label[i] \in {"_", "-"}

\* C9 as stated: a constructor given intervals it accepts returns exactly
\* when the label is space-free and made of alphanumeric characters,
\* underscores and hyphens only, and raises ValueError for any other label.
C9_LabelAccepted ==
  op.name \in {"construct", "construct_bh"}
    /\ op.intervals # <<>>
    /\ (\A i \in DOMAIN op.intervals : EqualLengths(op.intervals[i]))
  => IF AllowedCharacters(op.label) THEN exc = "None"
     ELSE exc = "ValueError"

\* the interval interpolate_shmr selects
Selected(intervals, index) ==
  intervals[IF index < 0 THEN Len(intervals) + index + 1 ELSE index + 1]

SupportedFunction(f) ==
  \/ f.py = "str" /\ f.text \in {"behroozi2010", "behroozi2013", "moster2013",
                                 "rodriguez_puebla2017", "double_powerlaw"}
  \/ f.py = "callable" /\ f.drop = 0

\* the keyword names the function of a call takes
KeywordsTaken(f) ==
  IF f.py = "callable" \/ f.text = "double_powerlaw"
  THEN {"ms_norm", "mh_norm", "alpha_low", "alpha_high"}
  ELSE IF f.text = "behroozi2010"
  THEN {"redshift", "logMstar00", "logMstar0a", "logM10", "logM1a", "beta0",
        "betaa", "delta0", "deltaa", "gamma0", "gammaa"}
  ELSE IF f.text = "moster2013" THEN {"m1", "n10", "beta", "gamma"}
  ELSE IF f.text = "behroozi2013"
  THEN {"log_m1", "ms0", "beta", "delta", "gamma"}
  ELSE {"log_m1", "log_eps", "alpha", "beta", "gamma"}

\* the other arguments of a call are ones calculate_shmr can use: parameters
\* the function takes, scatter and errors of n entries or of one, a label
\* the dataset accepts
UsableArguments(c) ==
  /\ c.parameters = NoneVal \/ DOMAIN c.parameters \subseteq
                                 KeywordsTaken(c.shmr_function)
  /\ \A g \in {c.scatter, c.stellar_mass_errors} :
       g.given => Len(g.value) \in {1, Len(c.halo_masses)}
  /\ AllowedCharacters(c.label)
  /\ \E i \in DOMAIN c.label : IsAlnumChar(c.label[i])

Together(parameters, kwargs) ==
  [k \in DOMAIN parameters \cup DOMAIN kwargs |->
     IF k \in DOMAIN parameters THEN parameters[k] ELSE kwargs[k]]

\* C12 as stated: the stellar masses calculate_shmr returns for the double
\* power law are those of double_powerlaw_shmr given the entries of
\* `parameters` together with the extra keyword arguments of the call.
C12_KeywordsPassed ==
  /\ op.name = "calculate"
  /\ exc = "None"
  /\ op.args.shmr_function = [py |-> "str", text |-> "double_powerlaw"]
  /\ op.args.parameters = NoneVal
  => ret.redshift_intervals[1].massStellar
       = double_powerlaw_shmr(
           op.args.halo_masses,
           BindKeywords(double_powerlaw_defaults,
                        Together(NoKeywords, op.args.kwargs)).val)

\* a load_shmr call read the file in this format
ReadIn(call, format) ==
  LET chosen == LoadFormat(call.filepath, call.format)
  IN  chosen.exc = "None" /\ chosen.val = format

\* C13 as stated: load_shmr in HDF5 format of a file that save_shmr wrote in
\* HDF5 format returns metadata in which every field equals the saved one
\* in value and type, and halo_mass and stellar_mass arrays equal to the
\* saved ones.
C13_MetadataPreserved ==
  /\ op.name = "load_shmr"
  /\ fs[op.filepath] = save_hdf5(data)
  /\ ReadIn(op, "hdf5")
  => /\ exc = "None"
     /\ \A f \in DOMAIN data.metadata : ret.metadata[f] = data.metadata[f]
     /\ ret.halo_mass = data.halo_mass
     /\ ret.stellar_mass = data.stellar_mass

\* C14 as stated: load_shmr in YAML or JSON of a file that save_shmr wrote
\* in that format returns the saved halo_mass and stellar_mass arrays, the
\* saved optional error arrays (an absent one absent), the saved extra_data
\* arrays and the saved name and reference, and returns what an HDF5 round
\* trip of the same data returns.
C14_TextRoundTrip ==
  /\ op.name = "load_shmr"
  /\ \/ fs[op.filepath] = save_yaml(data) /\ ReadIn(op, "yaml")
     \/ fs[op.filepath] = save_json(data) /\ ReadIn(op, "json")
  => /\ exc = "None"
     /\ \A n \in {"halo_mass", "stellar_mass", "extra_data"} \cup ErrorArrays :
          ret[n] = data[n]
     /\ ret.metadata.name = data.metadata.name
     /\ ret.metadata.reference = data.metadata.reference
     /\ Ok(ret) = load_hdf5(save_hdf5(data))

\* the suffixes that stand for a format
FormatOfSuffix ==
  {<<<<".", "h", "5">>, "hdf5">>, <<<<".", "y", "a", "m", "l">>, "yaml">>,
   <<<<".", "j", "s", "o", "n">>, "json">>}

\* what reading file f as `format` gives: the dataset of the file when the
\* file is of that format, and an error of the reader otherwise
ReadAs(f, format) ==
  IF f.format # format THEN exc # "None"
  ELSE /\ exc = "None"
       /\ Ok(ret) = (IF format = "hdf5" THEN load_hdf5(f)
                     ELSE IF format = "yaml"
                     THEN FromDataDict(yaml_safe_load(f.doc))
                     ELSE FromDataDict(json_load(f.doc)))

PositiveErrors ==
  {"Halo masses must be positive", "Stellar masses must be positive"}

AllPositive(array) == \A i \in DOMAIN array.values : array.values[i] > 0

\* the same dataset with its halo masses in ascending order
AscendingHaloMass(d) ==
  [d EXCEPT !.halo_mass =
     NdArray(CHOOSE s \in [DOMAIN d.halo_mass.values -> Range(d.halo_mass.values)] :
               /\ IsSortedArray(s)
               /\ \A v \in Range(s) :
                    Cardinality({i \in DOMAIN s : s[i] = v})
                      = Cardinality({i \in DOMAIN s :
                                       d.halo_mass.values[i] = v}))]

\* every error array that is present is as long as its mass array
ErrorArraysFit(d) ==
  /\ \A n \in {"stellar_mass_err_lower", "stellar_mass_err_upper"} :
       d[n] # PyNone => Len(d[n].values) = Len(d.stellar_mass.values)
  /\ \A n \in {"halo_mass_err_lower", "halo_mass_err_upper"} :
       d[n] # PyNone => Len(d[n].values) = Len(d.halo_mass.values)

\* what C16 says of a halo mass or a stellar mass that is not positive, and
\* of a halo-mass array that is not sorted
PositiveAndSorted ==
  /\ ~AllPositive(data.halo_mass) \/ ~AllPositive(data.stellar_mass)
     => /\ ~ret.valid
        /\ \E i \in DOMAIN ret.errors : ret.errors[i] \in PositiveErrors
  /\ ~IsSortedArray(data.halo_mass.values)
     => /\ ret.warnings = <<"Halo mass array is not sorted">>
        /\ ret.valid = validate_shmr(AscendingHaloMass(data)).valid
        /\ ret.errors = validate_shmr(AscendingHaloMass(data)).errors

\* C16 as stated: validate_shmr returns valid=False with an error
\* mentioning 'positive' when a halo or stellar mass is not positive,
\* valid=True with no error when the metadata conforms to the schema, the
\* two mass arrays have equal length and every mass is positive, and an
\* unsorted halo-mass array adds a warning only.
C16_ValidWhenPositive ==
  op.name = "validate_shmr"
  => /\ PositiveAndSorted
     /\ /\ SchemaConforms(asdict(data.metadata))
        /\ Len(data.halo_mass.values) = Len(data.stellar_mass.values)
        /\ AllPositive(data.halo_mass) /\ AllPositive(data.stellar_mass)
        => ret.valid /\ ret.errors = <<>>

\* C16, amended: as stated, with valid=True and no error when moreover
\* every error array that is present has the length of its mass array.
C16_ValidWhenConsistent ==
  op.name = "validate_shmr"
  => /\ PositiveAndSorted
     /\ /\ SchemaConforms(asdict(data.metadata))
        /\ Len(data.halo_mass.values) = Len(data.stellar_mass.values)
        /\ AllPositive(data.halo_mass) /\ AllPositive(data.stellar_mass)
        /\ ErrorArraysFit(data)
        => ret.valid /\ ret.errors = <<>>

C16_Witness ==
  /\ op.name = "validate_shmr"
  /\ data.stellar_mass_err_upper # PyNone
  /\ ErrorArraysFit(data)
  /\ ~IsSortedArray(data.halo_mass.values)
  /\ ret.valid
  /\ ret.warnings # <<>>

\* C17 as stated: given a directory, validate.py validates exactly the
\* files under it, at any depth, whose names match --pattern.
C17_PatternFiles ==
  op.name = "main" /\ is_dir(fs, op.args.path)
  => ret.validated = rglob(fs, op.args.path, op.args.pattern)

\* C18: for distinct non-negative redshifts, taken in ascending order, the
\* first bin of calculate_redshift_bins starts at 0, each bin ends where
\* the next one starts, at the midpoint of the two redshifts, the last bin
\* ends at its redshift + 0.5, and every redshift lies inside its own bin.
C18_BinsCover ==
  /\ op.name = "calculate_redshift_bins"
  /\ \A i, j \in DOMAIN op.redshifts :
       op.redshifts[i] = op.redshifts[j] => i = j
  /\ \A i \in DOMAIN op.redshifts : op.redshifts[i] >= 0
  => LET z == np_sort(op.redshifts)
         k == Len(z)
     IN  /\ DOMAIN ret = Range(z)
         /\ ret[z[1]][1] = 0
         /\ \A i \in 1..(k - 1) :
              /\ ret[z[i]][2] = ret[z[i + 1]][1]
              /\ 2 * ret[z[i]][2] = z[i] + z[i + 1]
         /\ ret[z[k]][2] = z[k] + HalfRedshift
         /\ \A i \in 1..k : ret[z[i]][1] <= z[i] /\ z[i] <= ret[z[i]][2]

C18_Witness ==
  /\ op.name = "calculate_redshift_bins"
  /\ op.redshifts = <<6, 0, 2>>
  /\ ret[2] = <<1, 4>>

\* C19 as stated: a file that a successful save_galacticus_shmr wrote is
\* reported by validate_galacticus_file as valid, with no error and no
\* warning.
C19_SavedFileValid ==
  op.name = "save" /\ exc = "None"
  => validate_galacticus_file(fs, op.filepath)
       = [valid |-> TRUE, errors |-> <<>>, warnings |-> <<>>]

C19_Witness ==
  /\ op.name = "save"
  /\ exc = "None"
  /\ Len(data.redshift_intervals) >= 2
  /\ fs[op.filepath] = WriteFile(data)
  /\ validate_galacticus_file(fs, op.filepath).valid

\* C20 as stated: a file that validate_galacticus_file reports as valid is
\* loaded by load_galacticus_shmr without an exception, whatever its label
\* and whatever follows 'redshiftInterval' in the names of its groups.
C20_ValidFileLoads ==
  op.name = "validate" /\ ret.valid
  => load_galacticus_shmr(fs, op.filepath).exc = "None"

\* the errors of a validation result that name the group
ErrorsIn(results, interval_name) ==
  {results.errors[i] : i \in {j \in DOMAIN results.errors :
                                 results.errors[j].where = interval_name}}

\* C21 as stated: validate_galacticus_file reports 'has wrong length' for a
\* dataset exactly when its length differs from that of massHalo in the
\* same group, never from the massHalo of another group, and a group with
\* no massHalo gets 'Missing dataset' errors only.
C21_OwnGroupLength ==
  op.name = "validate" /\ fs[op.filepath] \notin {NoFile, NotHDF5}
  => \A g \in Range(IntervalNames(fs[op.filepath])) :
       LET dsets == fs[op.filepath].members[g].dsets
           wrong == {e.what : e \in {x \in ErrorsIn(ret, g) :
                                       x.msg = "Dataset has wrong length"}}
       IN  IF "massHalo" \in DOMAIN dsets
           THEN wrong = {d \in DOMAIN dsets \cap Range(DatasetNames) :
                           Len(dsets[d].data) # Len(dsets["massHalo"].data)}
           ELSE /\ \A e \in ErrorsIn(ret, g) :
                     e.msg = "Missing dataset"
                /\ \A i \in DOMAIN ret.errors :
                     ret.errors[i].msg # "Error reading file"

\* C22: in every result of validate_galacticus_file, valid is False exactly
\* when the errors list is not empty, whatever the warnings are.
C22_ValidIffNoErrors ==
  op.name = "validate" => (ret.valid <=> ret.errors = <<>>)

C22_Witness ==
  /\ op.name = "validate"
  /\ fs[op.filepath] \notin {NoFile, NotHDF5}
  /\ ret.warnings # <<>>
  /\ ret.errors = <<>>
  /\ ret.valid

\* C23: after save_galacticus_shmr on a path that holds the file of another
\* dataset, the file is the one written for the dataset just saved: its
\* groups are cosmology and one group for each of its intervals, none of
\* the earlier dataset is left, and load_galacticus_shmr returns a dataset
\* equal to the one just saved.
C23_RebuiltWholesale ==
  op.name = "save" /\ exc = "None" /\ "before" \in DOMAIN op
  => /\ fs[op.filepath] = WriteFile(data)
     /\ DOMAIN fs[op.filepath].members
          = {CosmologyName}
            \cup {GroupName(i - 1) : i \in DOMAIN data.redshift_intervals}
     /\ Len(IntervalNames(fs[op.filepath])) = Len(data.redshift_intervals)
     /\ load_galacticus_shmr(fs, op.filepath).exc = "None"
     /\ load_galacticus_shmr(fs, op.filepath).val = data

C23_Witness ==
  /\ op.name = "save"
  /\ exc = "None"
  /\ op.before \notin {NoFile, NotHDF5}
  /\ op.before # WriteFile(data)
  /\ Len(IntervalNames(op.before)) > Len(data.redshift_intervals)
  /\ load_galacticus_shmr(fs, op.filepath) = Ok(data)

====
